---- MODULE Spec2Model ----
(***************************************************************************)
(* Trust and access core of llm-remote: the authentication guard           *)
(* (src/src/auth/guard.js), the session manager (auth/session.js), the     *)
(* rate limiter (security/ratelimit.js) and the /auth, /lock, /project and *)
(* prompt handlers of the bot that drive them.                             *)
(*                                                                         *)
(* Time is the value of Date.now() in milliseconds.  Updates are handled   *)
(* one at a time (grammy's long polling awaits each update), so one        *)
(* request, guard and downstream handler together, is one step.            *)
(***************************************************************************)
EXTENDS Integers, Sequences, FiniteSets, TLC

VARIABLES now, sessions, disk, lastSave, ioFaults, failedAttempts, buckets, auditLog, out,
          granted, memory, pending, callbacks, history

\* the shared memory file and the instances that work on it
sharedVars == <<memory, pending, callbacks, history>>

vars == <<now, sessions, disk, lastSave, ioFaults, failedAttempts, buckets, auditLog, out, granted,
          sharedVars>>

(***************************************************************************)
(* Bounds of the model.                                                    *)
(***************************************************************************)
\* granularity of the clock in the request-level specifications (7.5 min)
TickMs == 450000
\* the clock stops after this many ticks
MaxTicks == 4
\* recordFailedAuth is not explored beyond this count
MaxFailCount == 7
\* lines the audit log may hold
MaxAudit == 6
\* the clock of the SessionManager specification stops after this many ticks
StoreTicks == 4
\* snapshot writes that may fail in one run
MaxIoFaults == 1
\* the clock of the lockout specification stops after this many days
LockTicks == 3
\* largest failure count drawn for the lockout-window specification
MaxLockCount == 45
\* the short step of the clock in the snapshot-coalescing specification (30 s)
ShortMs == 30000
\* short steps the clock may take after each long one
MaxShortTicks == 2
\* long steps the clock of the snapshot-coalescing specification may take
ThrottleTicks == 2
\* the two steps of the clock in the rate-limiter specification (19.5 s, 20 s)
RateStepA == 19500
RateStepB == 20000
\* time the rate-limiter specification covers (125 s)
RateSpan == 125000
\* allowed checks one run of the rate-limiter specification may make
MaxGrants == 5
\* lines logAudit may append in the session specification
MaxAppends == 1
\* entries of the snapshot that may be damaged at a time
MaxBadEntries == 1
MaxText == 4
MaxCaption == 2
\* failures and audit lines the per-identity specification explores
MaxPairFail == 2
MaxPairAudit == 3
\* callbacks of the auto-chat timer that may be running at once
MaxCallbacks == 2
\* ids genId hands out in one run
MaxIds == 3
\* lines the audit file of the audit specification may hold
MaxLines == 5
\* lines of it that may be damaged
MaxCorrupt == 1
\* bytes of the keyed hash, salt, IV and tag of a token in the model (the
\* code has 32, 32, 16 and 16; the layout and the checks are the same)
MacW == 2
SaltW == 1
IvW == 1
TagW == 1

(***************************************************************************)
(* Configuration (src/src/utils/config.js) and the guard's constants.      *)
(***************************************************************************)
SESSION_TIMEOUT_MIN == 15
sessionTimeoutMs == SESSION_TIMEOUT_MIN * 60 * 1000
rateLimitPerMin == 2
authorizedUsers == {1, 2}
AUTH_PIN == <<4, 8>>
defaultWorkDir == "home"

MAX_FAILED == 5
BASE_LOCKOUT_MS == 15 * 60 * 1000
MAX_LOCKOUT_MS == 24 * 60 * 60 * 1000

\* ctx.from?.id: 0 stands for an update without a sender, 3 is not whitelisted
NoUser == 0
Senders == {NoUser, 1, 2, 3}
ChatTypes == {"private", "group", "supergroup"}
Pins == {<<4, 8>>, <<4, 9>>, <<4>>}
WorkDirs == {"home", "proj"}
IoResults == {"ok", "fail"}
StorePins == {<<4, 8>>, <<4, 9>>}

(***************************************************************************)
(* JavaScript Map and small helpers.                                       *)
(***************************************************************************)
EmptyMap == [x \in {} |-> 0]
MapSet(m, k, v) == [x \in (DOMAIN m) \cup {k} |-> IF x = k THEN v ELSE m[x]]
MapDelete(m, k) == [x \in (DOMAIN m) \ {k} |-> m[x]]
Min(a, b) == IF a <= b THEN a ELSE b
\* Math.ceil(a / b) for b > 0
CeilDiv(a, b) == IF a >= 0 THEN (a + b - 1) \div b ELSE -((-a) \div b)

RECURSIVE Pow2(_)
Pow2(n) == IF n <= 0 THEN 1 ELSE 2 * Pow2(n - 1)

(***************************************************************************)
(* JSON object keys: String(userId) on write, parseInt(key, 10) on read.   *)
(***************************************************************************)
RECURSIVE JsonKey(_)
JsonKey(n) == IF n < 10 THEN <<n>> ELSE Append(JsonKey(n \div 10), n % 10)

RECURSIVE parseInt(_)
parseInt(s) ==
  IF Len(s) = 0 THEN 0
  ELSE 10 * parseInt(SubSeq(s, 1, Len(s) - 1)) + s[Len(s)]

(***************************************************************************)
(* SessionManager.  A store is [sessions, disk, lastSave]: the module-level*)
(* Map, the content of sessions.json, and this._lastSave (0: never saved). *)
(***************************************************************************)
NoFile == [exists |-> FALSE, data |-> EmptyMap]

\* fault injection: a save that writes nothing
saveSessionsNever(st, t, io) == st

\* #saveSessions: JSON.stringify of the Map, or the catch branch on a write error
saveSessions(st, t, io) ==
  IF io = "ok"
  THEN [sessions |-> st.sessions,
        disk |-> [exists |-> TRUE,
                  data |-> [k \in {JsonKey(u) : u \in DOMAIN st.sessions} |->
                              st.sessions[CHOOSE u \in DOMAIN st.sessions : JsonKey(u) = k]]],
        lastSave |-> t]
  ELSE st

\* fault injection: a load that restores every entry of the snapshot
loadSessionsUnfiltered(file, t) ==
  IF ~file.exists THEN EmptyMap
  ELSE [u \in {parseInt(k) : k \in DOMAIN file.data} |->
          file.data[CHOOSE k \in DOMAIN file.data : parseInt(k) = u]]

\* fault injection: a load that drops an entry at exactly the timeout
loadSessionsStrict(file, t) ==
  IF ~file.exists THEN EmptyMap
  ELSE LET keep == {k \in DOMAIN file.data :
                      t - file.data[k].lastActivity < sessionTimeoutMs}
       IN [u \in {parseInt(k) : k \in keep} |->
             file.data[CHOOSE k \in keep : parseInt(k) = u]]

\* values of a snapshot entry that are not a session: null, and a number
NullEntry == [corrupt |-> "null"]
NumberEntry == [corrupt |-> "number"]

\* session.lastActivity is a number
hasLastActivity(entry) == "lastActivity" \in DOMAIN entry

\* #loadSessions: Object.entries gives the keys in ascending order; reading
\* lastActivity of null throws, which ends the loop in the catch branch with
\* the entries restored so far; of another value that is not a session it is
\* undefined, and the comparison with NaN is false.  The entries reached that
\* have not expired at time t are restored.
loadSessions(file, t) ==
  IF ~file.exists THEN EmptyMap
  ELSE LET threw == {k \in DOMAIN file.data : file.data[k] = NullEntry}
           reached == {k \in DOMAIN file.data :
                         \A n \in threw : parseInt(k) < parseInt(n)}
           keep == {k \in reached :
                      /\ hasLastActivity(file.data[k])
                      /\ t - file.data[k].lastActivity <= sessionTimeoutMs}
       IN [u \in {parseInt(k) : k \in keep} |->
             file.data[CHOOSE k \in keep : parseInt(k) = u]]

\* timingSafeEqual after the length check
PinMatches(pin, expected) ==
  /\ Len(pin) = Len(expected)
  /\ \A i \in 1..Len(pin) : pin[i] = expected[i]

\* fault injection: a whitelist that holds every identity
includesAnyUser(u) == TRUE

\* config.auth.authorizedUsers.includes(userId)
includesUser(u) == u \in authorizedUsers

\* fault injection: a wrong PIN ends the session the identity holds
authenticateEndsSession(st, u, pin, t, io) ==
  IF ~includesUser(u)
  THEN [ok |-> FALSE, reason |-> "unauthorized_user", st |-> st]
  ELSE IF ~PinMatches(pin, AUTH_PIN)
  THEN [ok |-> FALSE, reason |-> "invalid_pin",
        st |-> saveSessions([st EXCEPT !.sessions = MapDelete(st.sessions, u)], t, io)]
  ELSE [ok |-> TRUE, reason |-> "",
        st |-> saveSessions(
                 [st EXCEPT !.sessions =
                    MapSet(st.sessions, u,
                           [authenticatedAt |-> t, lastActivity |-> t,
                            workDir |-> defaultWorkDir])],
                 t, io)]

\* authenticate(userId, pin): [ok, reason, st]
authenticate(st, u, pin, t, io) ==
  IF ~includesUser(u)
  THEN [ok |-> FALSE, reason |-> "unauthorized_user", st |-> st]
  ELSE IF ~PinMatches(pin, AUTH_PIN)
  THEN [ok |-> FALSE, reason |-> "invalid_pin", st |-> st]
  ELSE [ok |-> TRUE, reason |-> "",
        st |-> saveSessions(
                 [st EXCEPT !.sessions =
                    MapSet(st.sessions, u,
                           [authenticatedAt |-> t, lastActivity |-> t,
                            workDir |-> defaultWorkDir])],
                 t, io)]

\* fault injection: a session that expires at exactly the timeout
ExpiredAtTimeout(session, t) == t - session.lastActivity >= sessionTimeoutMs

\* the comparison of isAuthenticated: has the session of u expired at time t
Expired(session, t) == t - session.lastActivity > sessionTimeoutMs

\* isAuthenticated(userId): [value, st]
isAuthenticated(st, u, t, io) ==
  IF u \notin DOMAIN st.sessions
  THEN [value |-> FALSE, st |-> st]
  ELSE IF Expired(st.sessions[u], t)
  THEN [value |-> FALSE,
        st |-> saveSessions([st EXCEPT !.sessions = MapDelete(st.sessions, u)], t, io)]
  ELSE [value |-> TRUE, st |-> st]

\* touch(userId)
touch(st, u, t, io) ==
  IF u \in DOMAIN st.sessions
  THEN LET st1 == [st EXCEPT !.sessions[u].lastActivity = t]
       IN IF st.lastSave = 0 \/ t - st.lastSave > 60000
          THEN saveSessions(st1, t, io)
          ELSE st1
  ELSE st

\* lock(userId)
lock(st, u, t, io) ==
  saveSessions([st EXCEPT !.sessions = MapDelete(st.sessions, u)], t, io)

\* lockAll()
lockAll(st, t, io) ==
  saveSessions([st EXCEPT !.sessions = EmptyMap], t, io)

\* getWorkDir(userId)
getWorkDir(st, u) ==
  IF u \in DOMAIN st.sessions THEN st.sessions[u].workDir ELSE defaultWorkDir

\* setWorkDir(userId, dir)
setWorkDir(st, u, dir, t, io) ==
  IF u \in DOMAIN st.sessions
  THEN saveSessions([st EXCEPT !.sessions[u].workDir = dir], t, io)
  ELSE st

(***************************************************************************)
(* Rate limiter (checkRateLimit) and audit log (logAudit).                 *)
(***************************************************************************)
RATE_WINDOW_MS == 60000

\* fault injection: a fixed one-minute bucket instead of the trailing window
FilterWindowFixed(ts, t) ==
  SelectSeq(ts, LAMBDA x : x \div RATE_WINDOW_MS = t \div RATE_WINDOW_MS)

\* fault injection: a timestamp exactly one window old still counts
FilterWindowInclusive(ts, t) ==
  SelectSeq(ts, LAMBDA x : t - x <= RATE_WINDOW_MS)

\* bucket.timestamps.filter(t => now - t < windowMs)
RECURSIVE FilterWindow(_, _)
FilterWindow(ts, t) ==
  IF Len(ts) = 0 THEN <<>>
  ELSE IF t - Head(ts) < RATE_WINDOW_MS
       THEN <<Head(ts)>> \o FilterWindow(Tail(ts), t)
       ELSE FilterWindow(Tail(ts), t)

\* fault injection: a refused check is recorded like an allowed one
checkRateLimitRecording(bk, u, t) ==
  LET kept == FilterWindow(IF u \in DOMAIN bk THEN bk[u] ELSE <<>>, t)
  IN [allowed |-> Len(kept) < rateLimitPerMin,
      waitSec |-> IF Len(kept) >= rateLimitPerMin
                  THEN CeilDiv(RATE_WINDOW_MS - (t - kept[1]), 1000) ELSE 0,
      buckets |-> MapSet(bk, u, Append(kept, t))]

\* checkRateLimit(userId): [allowed, waitSec, buckets]
checkRateLimit(bk, u, t) ==
  LET kept == FilterWindow(IF u \in DOMAIN bk THEN bk[u] ELSE <<>>, t)
  IN IF Len(kept) >= rateLimitPerMin
     THEN [allowed |-> FALSE,
           waitSec |-> CeilDiv(RATE_WINDOW_MS - (t - kept[1]), 1000),
           buckets |-> MapSet(bk, u, kept)]
     ELSE [allowed |-> TRUE, waitSec |-> 0,
           buckets |-> MapSet(bk, u, Append(kept, t))]

(***************************************************************************)
(* Cipher (src/src/crypto/cipher.js).  A JavaScript string is the sequence *)
(* of its UTF-16 code units, a Buffer a sequence of bytes, a token the     *)
(* sequence of the character codes of its base64 text.  The primitives of  *)
(* node:crypto are ideal functions: a keyed polynomial hash modulo a prime *)
(* stands for HMAC and PBKDF2, so two inputs of the same length that       *)
(* differ in one byte never collide, and AES-GCM is a keystream added to   *)
(* the plaintext with a keyed tag over IV and ciphertext.                  *)
(***************************************************************************)
Prime == 65521

RECURSIVE PolyHash(_, _)
PolyHash(seed, bytes) ==
  IF Len(bytes) = 0 THEN seed % Prime
  ELSE PolyHash((seed * 257 + Head(bytes) + 1) % Prime, Tail(bytes))

\* the w low-order bytes of v, most significant first
ToBytes(v, w) == [i \in 1..w |-> (v \div (256 ^ (w - i))) % 256]

\* Buffer.from(plaintext, 'utf8'): a lone surrogate becomes U+FFFD (EF BF BD)
RECURSIVE utf8Encode(_)
utf8Encode(str) ==
  IF Len(str) = 0 THEN <<>>
  ELSE LET c == Head(str)
       IN IF c < 128 THEN <<c>> \o utf8Encode(Tail(str))
          ELSE IF c < 2048
          THEN <<192 + (c \div 64), 128 + (c % 64)>> \o utf8Encode(Tail(str))
          ELSE IF c \in 55296..56319 /\ Len(str) > 1 /\ str[2] \in 56320..57343
          THEN LET cp == 65536 + (c - 55296) * 1024 + (str[2] - 56320)
               IN <<240 + (cp \div 262144), 128 + ((cp \div 4096) % 64),
                    128 + ((cp \div 64) % 64), 128 + (cp % 64)>>
                  \o utf8Encode(Tail(Tail(str)))
          ELSE IF c \in 55296..57343
          THEN <<239, 191, 189>> \o utf8Encode(Tail(str))
          ELSE <<224 + (c \div 4096), 128 + ((c \div 64) % 64), 128 + (c % 64)>>
               \o utf8Encode(Tail(str))

\* continuation byte
Cont(bytes, i) == Len(bytes) >= i /\ bytes[i] \in 128..191

\* decrypted.toString('utf8'): a byte that starts no sequence becomes U+FFFD
RECURSIVE utf8Decode(_)
utf8Decode(bytes) ==
  IF Len(bytes) = 0 THEN <<>>
  ELSE LET b == Head(bytes)
       IN IF b < 128 THEN <<b>> \o utf8Decode(Tail(bytes))
          ELSE IF b \in 194..223 /\ Cont(bytes, 2)
          THEN <<(b - 192) * 64 + (bytes[2] - 128)>>
               \o utf8Decode(SubSeq(bytes, 3, Len(bytes)))
          ELSE IF b \in 224..239 /\ Cont(bytes, 2) /\ Cont(bytes, 3)
          THEN <<(b - 224) * 4096 + (bytes[2] - 128) * 64 + (bytes[3] - 128)>>
               \o utf8Decode(SubSeq(bytes, 4, Len(bytes)))
          ELSE IF b \in 240..244 /\ Cont(bytes, 2) /\ Cont(bytes, 3) /\ Cont(bytes, 4)
          THEN LET cp == (b - 240) * 262144 + (bytes[2] - 128) * 4096
                         + (bytes[3] - 128) * 64 + (bytes[4] - 128) - 65536
               IN <<55296 + (cp \div 1024), 56320 + (cp % 1024)>>
                  \o utf8Decode(SubSeq(bytes, 5, Len(bytes)))
          ELSE <<65533>> \o utf8Decode(Tail(bytes))

\* the character code of the base64 digit i (0..63): A-Z a-z 0-9 + /
B64Char(i) ==
  IF i < 26 THEN 65 + i
  ELSE IF i < 52 THEN 97 + (i - 26)
  ELSE IF i < 62 THEN 48 + (i - 52)
  ELSE IF i = 62 THEN 43 ELSE 47

Pad == 61

\* the digit of a character code, 64 for a character outside the base64 and
\* base64url alphabets
unbase64(c) ==
  IF c \in 65..90 THEN c - 65
  ELSE IF c \in 97..122 THEN c - 97 + 26
  ELSE IF c \in 48..57 THEN c - 48 + 52
  ELSE IF c \in {43, 45} THEN 62
  ELSE IF c \in {47, 95} THEN 63
  ELSE 64

\* buf.toString('base64')
RECURSIVE toBase64(_)
toBase64(bytes) ==
  IF Len(bytes) = 0 THEN <<>>
  ELSE IF Len(bytes) = 1
  THEN <<B64Char(bytes[1] \div 4), B64Char((bytes[1] % 4) * 16), Pad, Pad>>
  ELSE IF Len(bytes) = 2
  THEN <<B64Char(bytes[1] \div 4),
         B64Char((bytes[1] % 4) * 16 + (bytes[2] \div 16)),
         B64Char((bytes[2] % 16) * 4), Pad>>
  ELSE <<B64Char(bytes[1] \div 4),
         B64Char((bytes[1] % 4) * 16 + (bytes[2] \div 16)),
         B64Char((bytes[2] % 16) * 4 + (bytes[3] \div 64)),
         B64Char(bytes[3] % 64)>> \o toBase64(SubSeq(bytes, 4, Len(bytes)))

\* the digits Buffer.from(text, 'base64') reads: characters outside the
\* alphabet are skipped and the first '=' ends the input
RECURSIVE B64Digits(_)
B64Digits(text) ==
  IF Len(text) = 0 \/ Head(text) = Pad THEN <<>>
  ELSE IF unbase64(Head(text)) = 64 THEN B64Digits(Tail(text))
  ELSE <<unbase64(Head(text))>> \o B64Digits(Tail(text))

\* the bytes of a sequence of digits: whole bytes only, left-over bits dropped
RECURSIVE DigitsToBytes(_)
DigitsToBytes(d) ==
  IF Len(d) < 2 THEN <<>>
  ELSE IF Len(d) = 2 THEN <<d[1] * 4 + (d[2] \div 16)>>
  ELSE IF Len(d) = 3
  THEN <<d[1] * 4 + (d[2] \div 16), (d[2] % 16) * 16 + (d[3] \div 4)>>
  ELSE <<d[1] * 4 + (d[2] \div 16), (d[2] % 16) * 16 + (d[3] \div 4),
         (d[3] % 4) * 64 + d[4]>> \o DigitsToBytes(SubSeq(d, 5, Len(d)))

\* Buffer.from(encoded, 'base64')
fromBase64(text) == DigitsToBytes(B64Digits(text))

MIN_PASSWORD_LENGTH == 16

\* fault injection: a constructor that asks for more than the minimum length
NewCipherAboveMinimum(masterPassword) ==
  IF masterPassword = <<>> \/ Len(masterPassword) <= MIN_PASSWORD_LENGTH
  THEN [ok |-> FALSE, masterKey |-> 0, hmacKey |-> 0]
  ELSE [ok |-> TRUE, masterKey |-> PolyHash(1, masterPassword),
        hmacKey |-> PolyHash(2, masterPassword)]

\* new Cipher(masterPassword): the two sub-keys, or the constructor throws.
\* <<>> stands for a passphrase that is missing (undefined, null or ''): all
\* are falsy
NewCipher(masterPassword) ==
  IF masterPassword = <<>> \/ Len(masterPassword) < MIN_PASSWORD_LENGTH
  THEN [ok |-> FALSE, masterKey |-> 0, hmacKey |-> 0]
  ELSE [ok |-> TRUE, masterKey |-> PolyHash(1, masterPassword),
        hmacKey |-> PolyHash(2, masterPassword)]

\* createHmac('sha256', key).update(data).digest()
createHmac(key, data) == ToBytes(PolyHash(key, data), MacW)

\* pbkdf2Sync(masterKey, salt, 1000, KEY_LENGTH, 'sha256')
pbkdf2Sync(key, salt) == PolyHash(key + 3, salt)

Keystream(key, iv, i) == PolyHash(key, iv \o <<i>>) % 256

\* getAuthTag / the tag decipher.final() expects
AuthTag(key, iv, ct) == ToBytes(PolyHash(key + 5, iv \o ct), TagW)

\* createCipheriv(...).update(bytes) + final()
cipherUpdate(key, iv, bytes) ==
  [i \in 1..Len(bytes) |-> (bytes[i] + Keystream(key, iv, i)) % 256]

\* createDecipheriv(...).update(ciphertext)
decipherUpdate(key, iv, ct) ==
  [i \in 1..Len(ct) |-> (ct[i] + 256 - Keystream(key, iv, i)) % 256]

\* fault injection: an encrypt that uses a fixed salt and IV
encryptFixedNonce(c, plaintext, salt, iv) ==
  LET salt0 == [i \in 1..Len(salt) |-> 0]
      iv0 == [i \in 1..Len(iv) |-> 0]
      key == pbkdf2Sync(c.masterKey, salt0)
      encrypted == cipherUpdate(key, iv0, utf8Encode(plaintext))
      tag == AuthTag(key, iv0, encrypted)
      payload == salt0 \o iv0 \o tag \o encrypted
      hmac == createHmac(c.hmacKey, payload)
  IN toBase64(hmac \o payload)

\* encrypt(plaintext) with the salt and IV that randomBytes returned
encrypt(c, plaintext, salt, iv) ==
  LET key == pbkdf2Sync(c.masterKey, salt)
      encrypted == cipherUpdate(key, iv, utf8Encode(plaintext))
      tag == AuthTag(key, iv, encrypted)
      payload == salt \o iv \o tag \o encrypted
      hmac == createHmac(c.hmacKey, payload)
  IN toBase64(hmac \o payload)

\* fault injection: a comparison of the keyed hashes that always succeeds
hmacIgnored(hmac, expectedHmac) == TRUE

\* hmac.equals(expectedHmac)
hmacEquals(hmac, expectedHmac) == hmac = expectedHmac

\* the result of decrypt: the string returned or the error thrown, and the
\* operations made on the way
DecryptError(error, steps) ==
  [ok |-> FALSE, plaintext |-> <<>>, error |-> error, steps |-> steps]

\* decrypt(encoded)
decrypt(c, encoded) ==
  LET data == fromBase64(encoded)
  IN IF Len(data) < MacW + SaltW + IvW + TagW
     THEN DecryptError("too_short", <<"base64", "length">>)
     ELSE LET hmac == SubSeq(data, 1, MacW)
              payload == SubSeq(data, MacW + 1, Len(data))
              expectedHmac == createHmac(c.hmacKey, payload)
          IN IF ~hmacEquals(hmac, expectedHmac)
             THEN DecryptError("hmac", <<"base64", "length", "hmac">>)
             ELSE LET salt == SubSeq(payload, 1, SaltW)
                      iv == SubSeq(payload, SaltW + 1, SaltW + IvW)
                      tag == SubSeq(payload, SaltW + IvW + 1, SaltW + IvW + TagW)
                      ciphertext == SubSeq(payload, SaltW + IvW + TagW + 1, Len(payload))
                      key == pbkdf2Sync(c.masterKey, salt)
                      steps == <<"base64", "length", "hmac", "pbkdf2", "decipher">>
                  IN IF tag # AuthTag(key, iv, ciphertext)
                     THEN DecryptError("auth_tag", steps)
                     ELSE [ok |-> TRUE,
                           plaintext |-> utf8Decode(decipherUpdate(key, iv, ciphertext)),
                           error |-> "", steps |-> steps]

\* hash(data): the keyed hash of the text, in hex
hash(c, data) == createHmac(c.hmacKey, utf8Encode(data))

\* logAudit(userId, action): one more line at the end of the log
logAudit(au, u, action) == Append(au, u)

\* logAudit with the outcome of appendFileSync: [threw, au].  Nothing in
\* logAudit catches the error of a failed append.
logAuditIo(au, u, action, io) ==
  IF io = "ok"
  THEN [threw |-> FALSE, au |-> logAudit(au, u, action)]
  ELSE [threw |-> TRUE, au |-> au]

(***************************************************************************)
(* The audit log in full (security/audit.js, in scheduler.js 152-205): the *)
(* file is the sequence of its lines, a line the token of an entry.  An    *)
(* entry is [u, a, d]: the keyed hash of the identity in hex, the action   *)
(* (one character) and the data the caller gave, here the caller and the   *)
(* number of the call.  The time t of an entry, which nothing reads, is    *)
(* left out.                                                               *)
(***************************************************************************)
MASTER_PASSWORD == [i \in 1..16 |-> 112]

\* cipher = new Cipher(config.crypto.masterPassword)
AuditCipher == NewCipher(MASTER_PASSWORD)

\* String(userId)
StringOf(n) == [i \in DOMAIN JsonKey(n) |-> 48 + JsonKey(n)[i]]

HexDigit(v) == IF v < 10 THEN 48 + v ELSE 87 + v

\* digest('hex')
RECURSIVE toHex(_)
toHex(bytes) ==
  IF Len(bytes) = 0 THEN <<>>
  ELSE <<HexDigit(Head(bytes) \div 16), HexDigit(Head(bytes) % 16)>> \o toHex(Tail(bytes))

\* cipher.hash(String(userId))
userHashOf(u) == toHex(hash(AuditCipher, StringOf(u)))

\* JSON.stringify(entry)
JsonStringify(entry) == entry.u \o <<entry.a, 48 + entry.d[1], 48 + entry.d[2]>>

\* JSON.parse(text): the entry, or a SyntaxError
JsonParse(text) ==
  IF Len(text) # 2 * MacW + 3
  THEN [ok |-> FALSE, u |-> <<>>, a |-> 0, d |-> <<0, 0>>]
  ELSE [ok |-> TRUE, u |-> SubSeq(text, 1, 2 * MacW), a |-> text[2 * MacW + 1],
        d |-> <<text[2 * MacW + 2] - 48, text[2 * MacW + 3] - 48>>]

\* fault injection: a write that replaces the file
writeFileSync(file, line) == <<line>>

\* appendFileSync(auditPath, encrypted + '\n')
appendFileSync(file, line) == Append(file, line)

\* the line logAudit(userId, action, data) appends
auditLine(u, action, data, salt, iv) ==
  encrypt(AuditCipher, JsonStringify([u |-> userHashOf(u), a |-> action, d |-> data]),
          salt, iv)

\* entry.u === userHash
entryMatches(entry, userHash) == entry.u = userHash

\* the loop of queryAudit from line i down, with the results so far
RECURSIVE scanAudit(_, _, _, _, _)
scanAudit(lines, i, userHash, limit, results) ==
  IF i < 1 \/ Len(results) >= limit THEN results
  ELSE LET dec == decrypt(AuditCipher, lines[i])
           entry == JsonParse(dec.plaintext)
       IN IF dec.ok /\ entry.ok /\ entryMatches(entry, userHash)
          THEN scanAudit(lines, i - 1, userHash, limit,
                         Append(results, [action |-> entry.a, data |-> entry.d]))
          ELSE scanAudit(lines, i - 1, userHash, limit, results)

\* fault injection: a scan that starts at the oldest line
queryAuditOldestFirst(lines, u, limit) ==
  LET rev == [i \in 1..Len(lines) |-> lines[Len(lines) + 1 - i]]
  IN scanAudit(rev, Len(rev), userHashOf(u), limit, <<>>)

\* queryAudit(userId, limit)
queryAudit(lines, u, limit) == scanAudit(lines, Len(lines), userHashOf(u), limit, <<>>)

(***************************************************************************)
(* Guard (src/src/auth/guard.js).                                          *)
(***************************************************************************)
\* fault injection: a failure that restarts the count
recordFailedAuthReset(fa, u, t) ==
  MapSet(fa, u, [count |-> 1, lastAttempt |-> t])

\* fault injection: a failure that leaves the time of an existing record
recordFailedAuthKeepTime(fa, u, t) ==
  MapSet(fa, u, [count |-> (IF u \in DOMAIN fa THEN fa[u].count ELSE 0) + 1,
                 lastAttempt |-> IF u \in DOMAIN fa THEN fa[u].lastAttempt ELSE t])

\* recordFailedAuth(userId): the Map after the call
recordFailedAuth(fa, u, t) ==
  MapSet(fa, u, [count |-> (IF u \in DOMAIN fa THEN fa[u].count ELSE 0) + 1,
                 lastAttempt |-> t])

\* fault injection: a success that keeps the failure record
keepFailedAuth(fa, u) == fa

\* fault injection: a success that empties the whole Map
clearEveryFailedAuth(fa, u) == EmptyMap

\* clearFailedAuth(userId)
clearFailedAuth(fa, u) == MapDelete(fa, u)

\* fault injection: a lockout window without the 24 h cap
LockoutMsUncapped(count) ==
  BASE_LOCKOUT_MS * Pow2((count - MAX_FAILED) \div MAX_FAILED)

\* lockoutMs of guardMiddleware for a failure count >= MAX_FAILED
LockoutMs(count) ==
  Min(BASE_LOCKOUT_MS * Pow2((count - MAX_FAILED) \div MAX_FAILED), MAX_LOCKOUT_MS)

\* Messages: kind abstracts ctx.message.  "start": text starts with /start;
\* "auth": "/auth <pin>"; "authbare": "/auth" alone; "lock", "project": those
\* commands; "web": /web with a query that has results; "pipe": /pipe with
\* steps; "cmd": a command without effect on this state (/help, /clear);
\* "text": plain text; "mention": plain text that mentions the bot or replies
\* to it; "media": voice, photo or document without text.
Kinds == {"start", "auth", "authbare", "lock", "project", "web", "pipe", "cmd",
          "text", "mention", "media"}
isCommand(kind) ==
  kind \in {"start", "auth", "authbare", "lock", "project", "web", "pipe", "cmd"}
botMentioned(kind) == kind = "mention"
isMedia(kind) == kind = "media"

\* the group branch of guardMiddleware lets the message through
GroupFilterPasses(chat, kind) ==
  \/ chat \notin {"group", "supergroup"}
  \/ isCommand(kind) \/ botMentioned(kind) \/ isMedia(kind)

\* fault injection: every command passes without a session
AnyCommand(kind) == isCommand(kind)

\* text.startsWith('/start') || text.startsWith('/auth ')
OpenCommand(kind) == kind \in {"start", "auth"}

\* return without a reply: [reply, remaining, next, st]
Silent(st) == [reply |-> "none", remaining |-> 0, next |-> FALSE, st |-> st]

\* fault injection: a refusal that answers the sender in a private chat
UnauthorizedReply(st, chat) ==
  [reply |-> IF chat = "private" THEN "unauthorized" ELSE "none",
   remaining |-> 0, next |-> FALSE, st |-> st]

\* the sender is not in config.auth.authorizedUsers: a log line, no reply
Unauthorized(st, chat) == Silent(st)

\* fault injection: a lockout that starts one failure late
LockedAboveMax(fa, u, t) ==
  /\ u \in DOMAIN fa
  /\ fa[u].count > MAX_FAILED
  /\ t - fa[u].lastAttempt < LockoutMs(fa[u].count)

\* the brute-force check: attempts.count >= MAX_FAILED and elapsed < lockoutMs
Locked(fa, u, t) ==
  /\ u \in DOMAIN fa
  /\ fa[u].count >= MAX_FAILED
  /\ t - fa[u].lastAttempt < LockoutMs(fa[u].count)

\* the lockout reply with the remaining minutes
LockedReply(st, fa, u, t) ==
  [reply |-> "locked",
   remaining |-> CeilDiv(LockoutMs(fa[u].count) - (t - fa[u].lastAttempt), 60000),
   next |-> FALSE, st |-> st]

\* fault injection: a gate that refreshes the session before it checks it
SessionGateTouchFirst(st, u, kind, t, io) ==
  IF OpenCommand(kind)
  THEN [reply |-> "none", remaining |-> 0, next |-> TRUE, st |-> st]
  ELSE LET auth == isAuthenticated(touch(st, u, t, io), u, t, io)
       IN IF ~auth.value
          THEN [reply |-> "noauth", remaining |-> 0, next |-> FALSE, st |-> auth.st]
          ELSE [reply |-> "none", remaining |-> 0, next |-> TRUE, st |-> auth.st]

\* /start and /auth pass without a session; everything else needs one, and
\* the session is touched before next()
SessionGate(st, u, kind, t, io) ==
  IF OpenCommand(kind)
  THEN [reply |-> "none", remaining |-> 0, next |-> TRUE, st |-> st]
  ELSE LET auth == isAuthenticated(st, u, t, io)
       IN IF ~auth.value
          THEN [reply |-> "noauth", remaining |-> 0, next |-> FALSE, st |-> auth.st]
          ELSE [reply |-> "none", remaining |-> 0, next |-> TRUE,
                st |-> touch(auth.st, u, t, io)]

\* fault injection: a guard that makes the lockout check before the group filter
guardMiddlewareLockoutFirst(st, fa, u, chat, kind, t, io) ==
  IF u = NoUser THEN Silent(st)
  ELSE IF u \notin authorizedUsers THEN Unauthorized(st, chat)
  ELSE IF Locked(fa, u, t) THEN LockedReply(st, fa, u, t)
  ELSE IF ~GroupFilterPasses(chat, kind) THEN Silent(st)
  ELSE SessionGate(st, u, kind, t, io)

\* guardMiddleware up to next(): [reply, remaining, next, st]
guardMiddleware(st, fa, u, chat, kind, t, io) ==
  IF u = NoUser THEN Silent(st)
  ELSE IF u \notin authorizedUsers THEN Unauthorized(st, chat)
  ELSE IF ~GroupFilterPasses(chat, kind) THEN Silent(st)
  ELSE IF Locked(fa, u, t) THEN LockedReply(st, fa, u, t)
  ELSE SessionGate(st, u, kind, t, io)

\* the entry a handler hands to logAudit: the action and the data (d: null
\* without data); NoEntry: the handler made no such call
NullData == [null |-> TRUE]
NoEntry == [a |-> "none", d |-> NullData]

\* what a handler that does nothing leaves: [st, fa, bk, au, result, rate,
\* provider, entry, steps]; steps lists the handler's calls in their order
Untouched(st, fa, bk, au) ==
  [st |-> st, fa |-> fa, bk |-> bk, au |-> au, result |-> "none",
   rate |-> "none", provider |-> FALSE, entry |-> NoEntry, steps |-> <<>>]

\* the /auth handler after authenticate returned ok
authSucceeded(h, r, u) ==
  [h EXCEPT !.st = r.st, !.fa = clearFailedAuth(h.fa, u),
            !.au = logAudit(h.au, u, "auth_success"),
            !.result = "auth_ok",
            !.entry = [a |-> "auth_success", d |-> NullData],
            !.steps = <<"authenticate", "clearFailedAuth", "logAudit",
                        "deleteMessage", "reply">>]

\* fault injection: a handler that audits the failure count it found
authFailedStaleCount(h, r, u, t) ==
  [h EXCEPT !.st = r.st, !.fa = recordFailedAuth(h.fa, u, t),
            !.au = logAudit(h.au, u, "auth_failed"),
            !.result = "auth_failed",
            !.entry = [a |-> "auth_failed",
                       d |-> [attempt |-> IF u \in DOMAIN h.fa
                                          THEN h.fa[u].count ELSE 0]],
            !.steps = <<"authenticate", "logAudit", "recordFailedAuth",
                        "deleteMessage", "reply">>]

\* the /auth handler after authenticate returned not ok: failCount is what
\* recordFailedAuth returns, the count it has just stored
authFailed(h, r, u, t) ==
  LET recorded == recordFailedAuth(h.fa, u, t)
      failCount == recorded[u].count
  IN [h EXCEPT !.st = r.st, !.fa = recorded,
               !.au = logAudit(h.au, u, "auth_failed"),
               !.result = "auth_failed",
               !.entry = [a |-> "auth_failed", d |-> [attempt |-> failCount]],
               !.steps = <<"authenticate", "recordFailedAuth", "logAudit",
                           "deleteMessage", "reply">>]

\* the handler the bot runs after the guard
Handler(kind, pin, dir, u, st, fa, bk, au, t, io) ==
  LET same == Untouched(st, fa, bk, au)
  IN CASE kind = "auth" ->
            LET r == authenticate(st, u, pin, t, io)
            IN IF r.ok THEN authSucceeded(same, r, u)
               ELSE authFailed(same, r, u, t)
       [] kind = "lock" ->
            [same EXCEPT !.st = lock(st, u, t, io),
                         !.au = logAudit(au, u, "session_locked"),
                         !.result = "locked"]
       [] kind = "project" ->
            [same EXCEPT !.st = setWorkDir(st, u, dir, t, io),
                         !.au = logAudit(au, u, "project_changed"),
                         !.result = "project"]
       [] kind \in {"text", "mention", "media"} ->
            LET rc == checkRateLimit(bk, u, t)
            IN IF rc.allowed
               THEN [same EXCEPT !.bk = rc.buckets,
                                 !.au = logAudit(au, u, "prompt"),
                                 !.result = "prompt",
                                 !.rate = "allowed", !.provider = TRUE]
               ELSE [same EXCEPT !.bk = rc.buckets, !.result = "rate_limited",
                                 !.rate = "refused"]
       [] kind = "web" ->
            [same EXCEPT !.au = logAudit(au, u, "web_search"),
                         !.result = "web_search", !.provider = TRUE]
       [] kind = "pipe" ->
            [same EXCEPT !.au = logAudit(au, u, "pipeline"),
                         !.result = "pipeline", !.provider = TRUE]
       [] OTHER -> same

(***************************************************************************)
(* Steps.                                                                  *)
(***************************************************************************)
\* out is the observable outcome of the update or call being handled: the
\* failure count the guard found for the sender, its reply, whether it called
\* next(), the lastActivity of the sender's session at that call (0: no
\* session), what the handler did, the outcome of its rate-limit check
\* ("none": it made no check), whether it called a provider, the
\* entry it handed to logAudit and its calls in their order; or the value a
\* SessionManager method returned.  Idle: nothing is being handled.
Idle == [op |-> "idle"]

\* The bot instances that mount the shared directory, by their BOT_NAME.
\* Each names the other in PEER_BOT_NAMES; INTER_BOT_AUTO is set for jorge.
Bots == {"jorge", "isa"}

\* memory.json does not exist yet
NoMemory == [exists |-> FALSE]
\* the instance is not inside a call of SharedMemory
NoPending == [pc |-> "idle"]
\* the slot holds no running callback of the auto-chat timer
NoCallback == [pc |-> "free"]
\* What the calls have returned so far: the ids genId has handed out, the
\* insights, messages and read-marks whose call has returned, how often each
\* message was auto-answered and each insight returned by getNewPeerInsights,
\* the peer insights that were stored when getNewPeerInsights last read the
\* file, and the messages the loop has finished with.
NoHistory == [nextId |-> 1, written |-> {}, sent |-> {}, marked |-> {},
              answered |-> EmptyMap, returned |-> EmptyMap, due |-> {}, processed |-> {}]

SharedIdle ==
  /\ memory = NoMemory
  /\ pending = [b \in Bots |-> NoPending]
  /\ callbacks = [k \in 1..MaxCallbacks |-> NoCallback]
  /\ history = NoHistory

Init ==
  /\ now = TickMs
  /\ sessions = EmptyMap
  /\ disk = NoFile
  /\ lastSave = 0
  /\ ioFaults = 0
  /\ failedAttempts = EmptyMap
  /\ buckets = EmptyMap
  /\ auditLog = <<>>
  /\ granted = <<>>
  /\ SharedIdle
  /\ out = Idle

Store == [sessions |-> sessions, disk |-> disk, lastSave |-> lastSave]

\* ioFaults counts the snapshot writes the environment has made fail
IoFault(ios) ==
  /\ "fail" \in ios => ioFaults < MaxIoFaults
  /\ ioFaults' = IF "fail" \in ios THEN ioFaults + 1 ELSE ioFaults

\* the clock advances
TickBy(step, last) ==
  /\ out = Idle
  /\ now + step <= last
  /\ now' = now + step
  /\ UNCHANGED <<sessions, disk, lastSave, ioFaults, failedAttempts, buckets, auditLog, out, granted, sharedVars>>

Tick == TickBy(TickMs, TickMs * MaxTicks)

\* the handled update is done: the bot turns to the next one
Deliver ==
  /\ out # Idle
  /\ out' = Idle
  /\ UNCHANGED <<now, sessions, disk, lastSave, ioFaults, failedAttempts, buckets, auditLog, granted, sharedVars>>

\* one update from sender u: the guard, then the handler if the guard calls next()
Request(u, chat, kind, pin, dir, io1, io2) ==
  /\ out = Idle
  /\ IoFault({io1, io2})
  /\ \E g \in {guardMiddleware(Store, failedAttempts, u, chat, kind, now, io1)} :
       \E h \in {IF g.next
                 THEN Handler(kind, pin, dir, u, g.st, failedAttempts, buckets,
                              auditLog, now, io2)
                 ELSE Untouched(g.st, failedAttempts, buckets, auditLog)} :
         /\ sessions' = h.st.sessions
         /\ disk' = h.st.disk
         /\ lastSave' = h.st.lastSave
         /\ failedAttempts' = h.fa
         /\ buckets' = h.bk
         /\ auditLog' = h.au
         /\ out' = [op |-> "request", user |-> u, chat |-> chat, kind |-> kind,
                    pin |-> pin,
                    attempts |-> IF u \in DOMAIN failedAttempts
                                 THEN failedAttempts[u].count ELSE 0,
                    reply |-> g.reply, remaining |-> g.remaining,
                    next |-> g.next,
                    activity |-> IF g.next /\ u \in DOMAIN g.st.sessions
                                 THEN g.st.sessions[u].lastActivity ELSE 0,
                    result |-> h.result, rate |-> h.rate,
                    provider |-> h.provider,
                    entry |-> h.entry, steps |-> h.steps]
         /\ UNCHANGED <<now, granted, sharedVars>>

\* the io results that matter for a message: the guard saves only on a session
\* check, the handler only for /auth, /lock and /project
GuardIo(kind, ios) == IF OpenCommand(kind) THEN {"ok"} ELSE ios
HandlerIo(kind, ios) == IF kind \in {"auth", "lock", "project"} THEN ios ELSE {"ok"}

\* the exploration stops at maxFail recorded failures and MaxAudit log lines
Capped(maxFail) ==
  /\ Len(auditLog') <= MaxAudit
  /\ \A x \in DOMAIN failedAttempts' : failedAttempts'[x].count <= maxFail

Requests(senders, ios) ==
  \E u \in senders, chat \in ChatTypes, kind \in Kinds :
    \E pin \in (IF kind = "auth" THEN Pins ELSE {<<>>}),
       dir \in (IF kind = "project" THEN WorkDirs ELSE {defaultWorkDir}),
       io1 \in GuardIo(kind, ios), io2 \in HandlerIo(kind, ios) :
      /\ Request(u, chat, kind, pin, dir, io1, io2)
      /\ Capped(MaxFailCount)

\* the senders of the request-level specification: a whitelisted identity and
\* one that is not whitelisted
Next == Tick \/ Deliver \/ Requests({1, 3}, {"ok"})

Spec == Init /\ [][Next]_vars

(***************************************************************************)
(* The SessionManager on its own: its methods called in any order by two   *)
(* whitelisted identities and one that is not, snapshot writes that may    *)
(* fail, and restarts of the process.                                      *)
(***************************************************************************)
StoreUsers == {1, 2}

SetStore(st) ==
  /\ sessions' = st.sessions
  /\ disk' = st.disk
  /\ lastSave' = st.lastSave
  /\ UNCHANGED <<now, failedAttempts, buckets, auditLog, granted, sharedVars>>

Authenticate(u, pin, io) ==
  /\ out = Idle
  /\ IoFault({io})
  /\ \E r \in {authenticate(Store, u, pin, now, io)} :
       /\ SetStore(r.st)
       /\ out' = [op |-> "authenticate", user |-> u, pin |-> pin, value |-> r.ok,
                  reason |-> r.reason,
                  replaced |-> IF r.ok /\ u \in DOMAIN sessions
                               THEN sessions[u].workDir ELSE "none"]

IsAuthenticated(u, io) ==
  /\ out = Idle
  /\ IoFault({io})
  /\ \E r \in {isAuthenticated(Store, u, now, io)} :
       /\ SetStore(r.st)
       /\ out' = [op |-> "isAuthenticated", user |-> u, value |-> r.value]

Touch(u, io) ==
  /\ out = Idle
  /\ IoFault({io})
  /\ \E st \in {touch(Store, u, now, io)} : SetStore(st)
  /\ UNCHANGED out

Lock(u, io) ==
  /\ out = Idle
  /\ IoFault({io})
  /\ \E st \in {lock(Store, u, now, io)} : SetStore(st)
  /\ UNCHANGED out

LockAll(io) ==
  /\ out = Idle
  /\ IoFault({io})
  /\ \E st \in {lockAll(Store, now, io)} : SetStore(st)
  /\ UNCHANGED out

SetWorkDir(u, dir, io) ==
  /\ out = Idle
  /\ IoFault({io})
  /\ \E st \in {setWorkDir(Store, u, dir, now, io)} : SetStore(st)
  /\ UNCHANGED out

\* the process ends and a new one is started: new SessionManager(), and the
\* module-level Maps of the guard and the rate limiter start empty
Restart ==
  /\ out = Idle
  /\ sessions' = loadSessions(disk, now)
  /\ lastSave' = 0
  /\ failedAttempts' = EmptyMap
  /\ buckets' = EmptyMap
  /\ granted' = <<>>
  /\ UNCHANGED sharedVars
  /\ out' = [op |-> "restart", user |-> NoUser, value |-> TRUE]
  /\ UNCHANGED <<now, disk, ioFaults, auditLog>>

StoreTick == TickBy(TickMs, TickMs * StoreTicks)

StoreCalls ==
  \E u \in StoreUsers, io \in IoResults :
    \/ \E pin \in StorePins : Authenticate(u, pin, io)
    \/ IsAuthenticated(u, io)
    \/ Touch(u, io)
    \/ Lock(u, io)
    \/ LockAll(io)
    \/ \E dir \in WorkDirs : SetWorkDir(u, dir, io)

NextStore == StoreTick \/ Deliver \/ StoreCalls \/ Restart

SpecStore == Init /\ [][NextStore]_vars

(***************************************************************************)
(* The lockout window on its own: the guard starts from a failure record   *)
(* with any count up to MaxLockCount whose last failure lies a chosen time *)
(* back, and handles /auth and another command of that identity.           *)
(***************************************************************************)
\* the times since the last failure: none, and each window less 1 ms and in full
LockElapsed ==
  {0} \cup {w - d : w \in {BASE_LOCKOUT_MS * Pow2(k) : k \in 0..6} \cup {MAX_LOCKOUT_MS},
                    d \in {0, 1}}

InitLockout ==
  /\ now = MAX_LOCKOUT_MS
  /\ \E c \in 1..MaxLockCount, e \in LockElapsed :
       failedAttempts = [u \in {1} |-> [count |-> c, lastAttempt |-> now - e]]
  /\ sessions = EmptyMap
  /\ disk = NoFile
  /\ lastSave = 0
  /\ ioFaults = 0
  /\ buckets = EmptyMap
  /\ auditLog = <<>>
  /\ granted = <<>>
  /\ SharedIdle
  /\ out = Idle

LockTick == TickBy(MAX_LOCKOUT_MS, MAX_LOCKOUT_MS * LockTicks)

LockRequests ==
  \E kind \in {"auth", "cmd"} :
    \E pin \in (IF kind = "auth" THEN Pins ELSE {<<>>}) :
      /\ Request(1, "private", kind, pin, defaultWorkDir, "ok", "ok")
      /\ Capped(MaxLockCount + LockTicks)

NextLockout == LockTick \/ Deliver \/ LockRequests

SpecLockout == InitLockout /\ [][NextLockout]_vars

(***************************************************************************)
(* SpecWhitelist: the lockout specification with, in addition, direct      *)
(* calls of authenticate for the identity that has the failure record and  *)
(* for an identity that is not in the whitelist.                           *)
(***************************************************************************)
DirectAuthenticate ==
  \E u \in {1, 3}, pin \in Pins, io \in IoResults : Authenticate(u, pin, io)

NextWhitelist == LockTick \/ Deliver \/ LockRequests \/ DirectAuthenticate

SpecWhitelist == InitLockout /\ [][NextWhitelist]_vars

(***************************************************************************)
(* SpecSession: every method of the SessionManager and logAudit, called in *)
(* any order, each call observable with what it returned and whether it    *)
(* threw; writes to storage that may fail; entries of the snapshot that    *)
(* are damaged from outside; and restarts of the process.                  *)
(***************************************************************************)
\* the outcome of a call: the method, the identity, the outcome of the
\* storage operation it made, the value returned, whether it threw
Outcome(op, u, io, value, threw) ==
  [op |-> op, user |-> u, io |-> io, value |-> value, threw |-> threw]

CallAuthenticate(u, pin, io) ==
  /\ out = Idle
  /\ IoFault({io})
  /\ \E r \in {authenticate(Store, u, pin, now, io)} :
       /\ SetStore(r.st)
       /\ out' = Outcome("authenticate", u, io, r.ok, FALSE)

CallIsAuthenticated(u, io) ==
  /\ out = Idle
  /\ IoFault({io})
  /\ \E r \in {isAuthenticated(Store, u, now, io)} :
       /\ SetStore(r.st)
       /\ out' = Outcome("isAuthenticated", u, io, r.value, FALSE)

CallTouch(u, io) ==
  /\ out = Idle
  /\ IoFault({io})
  /\ SetStore(touch(Store, u, now, io))
  /\ out' = Outcome("touch", u, io, TRUE, FALSE)

CallLock(u, io) ==
  /\ out = Idle
  /\ IoFault({io})
  /\ SetStore(lock(Store, u, now, io))
  /\ out' = Outcome("lock", u, io, TRUE, FALSE)

CallLockAll(io) ==
  /\ out = Idle
  /\ IoFault({io})
  /\ SetStore(lockAll(Store, now, io))
  /\ out' = Outcome("lockAll", NoUser, io, TRUE, FALSE)

CallGetWorkDir(u) ==
  /\ out = Idle
  /\ out' = Outcome("getWorkDir", u, "ok", getWorkDir(Store, u), FALSE)
  /\ UNCHANGED <<now, sessions, disk, lastSave, ioFaults, failedAttempts, buckets,
                 auditLog, granted, sharedVars>>

CallSetWorkDir(u, dir, io) ==
  /\ out = Idle
  /\ IoFault({io})
  /\ SetStore(setWorkDir(Store, u, dir, now, io))
  /\ out' = Outcome("setWorkDir", u, io, dir, FALSE)

CallLogAudit(u, io) ==
  /\ out = Idle
  /\ IoFault({io})
  /\ \E r \in {logAuditIo(auditLog, u, "session_locked", io)} :
       /\ auditLog' = r.au
       /\ Len(auditLog') <= MaxAppends
       /\ out' = Outcome("logAudit", u, io, TRUE, r.threw)
  /\ UNCHANGED <<now, sessions, disk, lastSave, failedAttempts, buckets, granted, sharedVars>>

\* an entry of the snapshot is damaged from outside
CorruptSnapshot(u, entry) ==
  /\ out = Idle
  /\ disk.exists
  /\ JsonKey(u) \in DOMAIN disk.data
  /\ Cardinality({k \in DOMAIN disk.data : ~hasLastActivity(disk.data[k])}) < MaxBadEntries
  /\ hasLastActivity(disk.data[JsonKey(u)])
  /\ disk' = [disk EXCEPT !.data[JsonKey(u)] = entry]
  /\ out' = Outcome("corrupt", u, "ok", TRUE, FALSE)
  /\ UNCHANGED <<now, sessions, lastSave, ioFaults, failedAttempts, buckets,
                 auditLog, granted, sharedVars>>

SessionCalls ==
  \E u \in StoreUsers, io \in IoResults :
    \/ CallAuthenticate(u, AUTH_PIN, io)
    \/ CallIsAuthenticated(u, io)
    \/ CallTouch(u, io)
    \/ CallLock(u, io)
    \/ CallLockAll(io)
    \/ CallGetWorkDir(u)
    \/ \E dir \in WorkDirs : CallSetWorkDir(u, dir, io)
    \/ CallLogAudit(u, io)

Corruptions ==
  \E u \in StoreUsers, entry \in {NullEntry, NumberEntry} : CorruptSnapshot(u, entry)

NextSession == Tick \/ Deliver \/ SessionCalls \/ Corruptions \/ Restart

SpecSession == Init /\ [][NextSession]_vars

(***************************************************************************)
(* SpecThrottle: the SessionManager with a clock that also takes steps     *)
(* shorter than the 60 s between two snapshot writes of touch.  Every      *)
(* write succeeds.                                                         *)
(***************************************************************************)
ThrottleLast == TickMs * (ThrottleTicks + 1) + ShortMs * MaxShortTicks

LongTick == TickBy(TickMs, ThrottleLast)

ShortTick ==
  /\ now % TickMs < ShortMs * MaxShortTicks
  /\ TickBy(ShortMs, ThrottleLast)

ThrottleCalls ==
  \E u \in StoreUsers :
    \/ Authenticate(u, AUTH_PIN, "ok")
    \/ IsAuthenticated(u, "ok")
    \/ Touch(u, "ok")
    \/ Lock(u, "ok")
    \/ \E dir \in WorkDirs : SetWorkDir(u, dir, "ok")

NextThrottle == LongTick \/ ShortTick \/ Deliver \/ ThrottleCalls \/ Restart

SpecThrottle == Init /\ [][NextThrottle]_vars

(***************************************************************************)
(* SpecRate: checkRateLimit called directly, with a clock whose steps put  *)
(* checks less than, exactly and more than one window apart.  granted is   *)
(* the history of the checks that returned allowed.                        *)
(***************************************************************************)
RateLast == TickMs + RateSpan

RateTick == TickBy(RateStepA, RateLast) \/ TickBy(RateStepB, RateLast)

\* checkRateLimit(u) at the current time
Check(u) ==
  /\ out = Idle
  /\ \E rc \in {checkRateLimit(buckets, u, now)} :
       /\ buckets' = rc.buckets
       /\ granted' = IF rc.allowed THEN Append(granted, [user |-> u, at |-> now])
                                   ELSE granted
       /\ out' = [op |-> "check", user |-> u, allowed |-> rc.allowed,
                  waitSec |-> rc.waitSec]
  /\ Len(granted') <= MaxGrants
  /\ UNCHANGED sharedVars
  /\ UNCHANGED <<now, sessions, disk, lastSave, ioFaults, failedAttempts, auditLog>>

Checks == \E u \in StoreUsers : Check(u)

NextRate == RateTick \/ Deliver \/ Checks

SpecRate == Init /\ [][NextRate]_vars

(***************************************************************************)
(* SpecCipher: a Cipher is built from a passphrase, encrypts a plaintext   *)
(* with a salt and an IV, and decrypts the token or a modification of it:  *)
(* one bit of one character flipped, or the text cut short.                *)
(***************************************************************************)
Passwords ==
  {<<>>, <<112>>, [i \in 1..15 |-> 112], [i \in 1..16 |-> 112], [i \in 1..17 |-> 113]}

\* "", "A", "Hi", "Hi!", "Hi!!", e-acute, a CJK character, an emoji (a
\* surrogate pair), a high surrogate on its own, "A" and a low surrogate
Plaintexts ==
  {<<>>, <<65>>, <<72, 105>>, <<72, 105, 33>>, <<72, 105, 33, 33>>, <<233>>,
   <<26085>>, <<55357, 56592>>, <<55357>>, <<65, 56592>>}

Salts == {[i \in 1..SaltW |-> 17], [i \in 1..SaltW |-> 200]}
Ivs == {[i \in 1..IvW |-> 5], [i \in 1..IvW |-> 250]}

\* character code x with bit b flipped
FlipBit(x, b) == IF (x \div (2 ^ b)) % 2 = 1 THEN x - (2 ^ b) ELSE x + (2 ^ b)

\* the modifications of a token: one bit flipped, or a proper prefix
Modified(token) ==
  {[token EXCEPT ![i] = FlipBit(token[i], b)] : i \in 1..Len(token), b \in 0..7}
  \cup {SubSeq(token, 1, n) : n \in 0..(Len(token) - 1)}

Construct(pw) ==
  /\ out = Idle
  /\ out' = [op |-> "construct", password |-> pw, ok |-> NewCipher(pw).ok]
  /\ UNCHANGED <<now, sessions, disk, lastSave, ioFaults, failedAttempts, buckets,
                 auditLog, granted, sharedVars>>

Encrypt(pw, plaintext, salt, iv) ==
  /\ out = Idle
  /\ NewCipher(pw).ok
  /\ out' = [op |-> "encrypt", password |-> pw, plaintext |-> plaintext,
             token |-> encrypt(NewCipher(pw), plaintext, salt, iv),
             salt |-> salt, iv |-> iv]
  /\ UNCHANGED <<now, sessions, disk, lastSave, ioFaults, failedAttempts, buckets,
                 auditLog, granted, sharedVars>>

\* decrypt, on the same Cipher, of the token just produced or of input
Decrypt(input) ==
  /\ out.op = "encrypt"
  /\ \E r \in {decrypt(NewCipher(out.password), input)} :
       out' = [op |-> "decrypt", password |-> out.password,
               plaintext |-> out.plaintext, token |-> out.token, input |-> input,
               ok |-> r.ok, result |-> r.plaintext, error |-> r.error,
               steps |-> r.steps]
  /\ UNCHANGED <<now, sessions, disk, lastSave, ioFaults, failedAttempts, buckets,
                 auditLog, granted, sharedVars>>

\* a second encrypt on the same Cipher, followed by decrypt of both tokens.
\* randomBytes does not repeat: the salt and IV are not both those of the
\* first call
EncryptAgain(plaintext, salt, iv) ==
  /\ out.op = "encrypt"
  /\ <<salt, iv>> # <<out.salt, out.iv>>
  /\ \E c \in {NewCipher(out.password)} :
       \E second \in {encrypt(c, plaintext, salt, iv)} :
         out' = [op |-> "encryptAgain", password |-> out.password,
                 plaintext |-> out.plaintext, token |-> out.token,
                 salt |-> out.salt, iv |-> out.iv,
                 plaintext2 |-> plaintext, token2 |-> second,
                 salt2 |-> salt, iv2 |-> iv,
                 first |-> decrypt(c, out.token), again |-> decrypt(c, second)]
  /\ UNCHANGED <<now, sessions, disk, lastSave, ioFaults, failedAttempts, buckets,
                 auditLog, granted, sharedVars>>

Constructs == \E pw \in Passwords : Construct(pw)

EncryptsAgain ==
  /\ out.op = "encrypt"
  /\ \E plaintext \in {out.plaintext, <<65>>}, salt \in Salts, iv \in Ivs :
       EncryptAgain(plaintext, salt, iv)

Encrypts ==
  \E pw \in Passwords, plaintext \in Plaintexts, salt \in Salts, iv \in Ivs :
    Encrypt(pw, plaintext, salt, iv)

Decrypts ==
  /\ out.op = "encrypt"
  /\ \E input \in {out.token} \cup Modified(out.token) : Decrypt(input)

NextCipher == Constructs \/ Encrypts \/ Decrypts \/ EncryptsAgain \/ Deliver

SpecCipher == Init /\ [][NextCipher]_vars

(***************************************************************************)
(* SpecAudit: logAudit and queryAudit of two identities on one file, whose *)
(* lines may be damaged from outside (one bit of the first character of a  *)
(* line).  auditLog is the file.                                           *)
(***************************************************************************)
AuditActions == {97}
QueryLimits == {0, 1, 2}

AuditFrame == UNCHANGED <<now, sessions, disk, lastSave, ioFaults, failedAttempts,
                          buckets, granted, sharedVars>>

\* logAudit(u, action, <<u, number of the call>>)
LogAudit(u, action) ==
  /\ out = Idle
  /\ Len(auditLog) < MaxLines
  /\ auditLog' = appendFileSync(auditLog,
                                auditLine(u, action, <<u, Len(auditLog) + 1>>,
                                          [i \in 1..SaltW |-> 17], [i \in 1..IvW |-> 5]))
  /\ out' = [op |-> "logAudit", user |-> u, action |-> action]
  /\ AuditFrame

QueryAudit(u, limit) ==
  /\ out = Idle
  /\ out' = [op |-> "queryAudit", user |-> u, limit |-> limit,
             results |-> queryAudit(auditLog, u, limit)]
  /\ UNCHANGED auditLog
  /\ AuditFrame

\* initAudit and closeAudit
InitAudit ==
  /\ out = Idle
  /\ out' = [op |-> "initAudit", user |-> NoUser]
  /\ UNCHANGED auditLog
  /\ AuditFrame

CloseAudit ==
  /\ out = Idle
  /\ out' = [op |-> "closeAudit", user |-> NoUser]
  /\ UNCHANGED auditLog
  /\ AuditFrame

\* the lines of the file that do not decrypt
Damaged == {i \in 1..Len(auditLog) : ~decrypt(AuditCipher, auditLog[i]).ok}

\* the file is damaged from outside
Corrupt(i) ==
  /\ i \in 1..Len(auditLog)
  /\ auditLog' = [auditLog EXCEPT ![i][1] = FlipBit(auditLog[i][1], 0)]
  /\ out' = [op |-> "corrupt", user |-> NoUser]
  /\ AuditFrame

AuditCalls ==
  \E u \in StoreUsers :
    \/ \E action \in AuditActions : LogAudit(u, action)
    \/ \E limit \in QueryLimits : QueryAudit(u, limit)

Corrupts ==
  /\ out = Idle
  /\ Cardinality(Damaged) < MaxCorrupt
  /\ \E i \in 1..Len(auditLog) : Corrupt(i)

NextAudit == AuditCalls \/ InitAudit \/ CloseAudit \/ Corrupts \/ Deliver

SpecAudit == Init /\ [][NextAudit]_vars

(***************************************************************************)
(* What the claims speak of, stated without the guard's own definitions.   *)
(***************************************************************************)
Minute == 60000
Whitelist == {1, 2}

\* the lockout window, in ms, that goes with a failure count c >= 5
ClaimWindow(c) ==
  CASE c \in 5..9 -> 15 * Minute
    [] c \in 10..14 -> 30 * Minute
    [] c \in 15..19 -> 60 * Minute
    [] c \in 20..24 -> 120 * Minute
    [] c \in 25..29 -> 240 * Minute
    [] c \in 30..34 -> 480 * Minute
    [] c \in 35..39 -> 960 * Minute
    [] OTHER -> 24 * 60 * Minute

\* a group message the guard ignores: plain text of a group or supergroup that
\* neither mentions the bot nor replies to it and carries no media
DroppedInGroup(chat, kind) == chat \in {"group", "supergroup"} /\ kind = "text"

\* u holds a session that has not expired at the current time
ValidSession(u) ==
  u \in DOMAIN sessions /\ now - sessions[u].lastActivity <= sessionTimeoutMs

\* u is inside a lockout window at the current time
InLockout(u) ==
  /\ u \in DOMAIN failedAttempts
  /\ failedAttempts[u].count >= 5
  /\ now - failedAttempts[u].lastAttempt < ClaimWindow(failedAttempts[u].count)

\* this step is the guard handling an update of sender u
Handles(u) == out = Idle /\ out'.op = "request" /\ out'.user = u

\* C1: once the failure count of an identity is 5 or more, every message of
\* that identity that the guard receives less than 15 minutes after the last
\* failure and that the group filter does not drop is answered with the
\* lockout reply with at least 1 minute remaining, reaches no handler, and
\* leaves the failure records and the session table as they were.
C1_LockedOut ==
  [][\A u \in Whitelist :
       (/\ Handles(u)
        /\ u \in DOMAIN failedAttempts
        /\ failedAttempts[u].count >= 5
        /\ now - failedAttempts[u].lastAttempt < 15 * Minute
        /\ ~DroppedInGroup(out'.chat, out'.kind))
       => /\ out'.reply = "locked"
          /\ out'.remaining >= 1
          /\ ~out'.next
          /\ failedAttempts' = failedAttempts
          /\ sessions' = sessions]_vars

\* C1 witness: /auth with the correct PIN, sent some time after the fifth
\* failure by an identity that holds a valid session, got the lockout reply.
C1_Witness ==
  /\ out # Idle /\ out.op = "request"
  /\ out.kind = "auth" /\ out.pin = AUTH_PIN
  /\ out.reply = "locked" /\ out.remaining = 8
  /\ ValidSession(out.user)
  /\ now - failedAttempts[out.user].lastAttempt > 0

\* C2: once the lockout window has elapsed in full since the last failure,
\* /auth with the correct PIN passes the guard, authenticate succeeds and
\* creates a session, and the failure record is removed; an identity without
\* a failure record that sends a wrong PIN gets failure number 1.
C2_UnlockAfterWindow ==
  [][\A u \in Whitelist :
       /\ (/\ Handles(u)
           /\ out'.kind = "auth" /\ out'.pin = AUTH_PIN
           /\ u \in DOMAIN failedAttempts
           /\ failedAttempts[u].count >= 5
           /\ now - failedAttempts[u].lastAttempt >= ClaimWindow(failedAttempts[u].count))
          => /\ out'.next
             /\ out'.result = "auth_ok"
             /\ u \in DOMAIN sessions'
             /\ sessions'[u].lastActivity = now
             /\ u \notin DOMAIN failedAttempts'
       /\ (/\ Handles(u)
           /\ out'.kind = "auth" /\ out'.pin # AUTH_PIN
           /\ u \notin DOMAIN failedAttempts)
          => /\ u \in DOMAIN failedAttempts'
             /\ failedAttempts'[u].count = 1]_vars

\* C2 witness: a correct PIN was accepted from an identity that had 5 failures.
C2_Witness ==
  /\ out # Idle /\ out.op = "request"
  /\ out.kind = "auth" /\ out.attempts >= 5
  /\ out.result = "auth_ok"
  /\ out.user \notin DOMAIN failedAttempts
  /\ ValidSession(out.user)

\* C3: for a failure count c >= 5 the guard answers with the lockout reply
\* exactly while less than min(15 min * 2^floor((c-5)/5), 24 h) has passed
\* since the last failure (15 min for 5..9, 30 min for 10..14, ..., 24 h from
\* 40 on), and the remaining time it reports is what is left of that window.
C3_Window ==
  [][(/\ Handles(1)
      /\ 1 \in DOMAIN failedAttempts
      /\ failedAttempts[1].count >= 5)
     => LET c == failedAttempts[1].count
            elapsed == now - failedAttempts[1].lastAttempt
        IN /\ (out'.reply = "locked") <=> (elapsed < ClaimWindow(c))
           /\ elapsed >= 24 * 60 * Minute => out'.reply # "locked"
           /\ out'.reply = "locked" =>
                /\ (out'.remaining - 1) * Minute < ClaimWindow(c) - elapsed
                /\ ClaimWindow(c) - elapsed <= out'.remaining * Minute]_vars

\* C3 witness: with 40 or more failures the guard still locks 1 ms before 24 h.
C3_Witness ==
  /\ out # Idle /\ out.op = "request" /\ out.kind = "cmd"
  /\ out.attempts >= 40
  /\ out.reply = "locked" /\ out.remaining = 1
  /\ now - failedAttempts[1].lastAttempt = 24 * 60 * Minute - 1

\* C4: the failure count of an identity goes down or disappears only in a
\* step in which that identity authenticates successfully; any other change
\* of the record is one more failure at the current time, and the window that
\* goes with the new count is not shorter than the one before.
C4_CountMonotone ==
  [][\A u \in DOMAIN failedAttempts :
       /\ (u \notin DOMAIN failedAttempts'
           \/ failedAttempts'[u].count < failedAttempts[u].count)
          => /\ Handles(u)
             /\ out'.kind = "auth" /\ out'.pin = AUTH_PIN
             /\ out'.result = "auth_ok"
       /\ (u \in DOMAIN failedAttempts' /\ failedAttempts'[u] # failedAttempts[u])
          => /\ Handles(u)
             /\ out'.result = "auth_failed"
             /\ failedAttempts'[u].count = failedAttempts[u].count + 1
             /\ failedAttempts'[u].lastAttempt = now
             /\ (failedAttempts[u].count >= MAX_FAILED
                 => LockoutMs(failedAttempts'[u].count) >= LockoutMs(failedAttempts[u].count))]_vars

\* C4 witness: the tenth failure, recorded after earlier windows had ended.
C4_Witness ==
  /\ out # Idle /\ out.op = "request"
  /\ out.result = "auth_failed" /\ out.attempts = 9
  /\ failedAttempts[1].count = 10
  /\ failedAttempts[1].lastAttempt = now

\* C5: an update of a sender that is not whitelisted gets no reply, reaches no
\* handler, and changes no session, snapshot, failure record, rate bucket or
\* audit line, whatever the chat and the message.
C5_SilentDeny ==
  [][\A u \in Senders \ Whitelist :
       Handles(u)
       => /\ out'.reply = "none"
          /\ ~out'.next
          /\ out'.result = "none"
          /\ UNCHANGED <<sessions, disk, lastSave, failedAttempts, buckets, auditLog>>]_vars

\* C5 witness: a stranger sent /auth with the correct PIN in a private chat
\* while a whitelisted identity had a session, a rate bucket and audit lines.
C5_Witness ==
  /\ out # Idle /\ out.op = "request"
  /\ out.user = 3 /\ out.chat = "private"
  /\ out.kind = "auth" /\ out.pin = AUTH_PIN
  /\ 1 \in DOMAIN sessions /\ 1 \in DOMAIN buckets /\ Len(auditLog) > 0

\* C6 as stated: a whitelisted identity that is not locked out and has no
\* valid session reaches a handler only with the start or the authentication
\* command; every other message gets the not-authenticated reply and reaches
\* no handler.
C6_AsStated ==
  [][\A u \in Whitelist :
       (Handles(u) /\ ~InLockout(u) /\ ~ValidSession(u))
       => IF out'.kind \in {"start", "auth"}
          THEN out'.next
          ELSE out'.reply = "noauth" /\ ~out'.next]_vars

\* C6 amended: the same for every message the group filter does not drop; a
\* dropped group message gets no reply at all and reaches no handler.
C6_UnauthenticatedGate ==
  [][\A u \in Whitelist :
       (Handles(u) /\ ~InLockout(u) /\ ~ValidSession(u))
       => IF DroppedInGroup(out'.chat, out'.kind)
          THEN out'.reply = "none" /\ ~out'.next
          ELSE IF out'.kind \in {"start", "auth"}
          THEN out'.next /\ out'.reply = "none"
          ELSE out'.reply = "noauth" /\ ~out'.next]_vars

\* C6 witness: a mention in a group by an identity whose session had expired
\* was answered with the not-authenticated reply.
C6_Witness ==
  /\ out # Idle /\ out.op = "request"
  /\ out.user = 1 /\ out.chat = "group" /\ out.kind = "mention"
  /\ out.reply = "noauth" /\ ~out.next
  /\ 1 \notin DOMAIN sessions /\ Len(auditLog) > 0

\* C8 as stated: whenever the guard passes an update of an identity with a
\* valid session on to a handler, it has set that session's lastActivity to
\* the current time before.
C8_TouchOnPass ==
  [][\A u \in Whitelist :
       (Handles(u) /\ ValidSession(u) /\ out'.next)
       => out'.activity = now]_vars

\* this step is a call of SessionManager method op for identity u
Calls(op, u) == out = Idle /\ out'.op = op /\ out'.user = u

\* this step is the clock advancing, or the end of the handling of a call
Background == now' # now \/ (out # Idle /\ out' = Idle)

\* C7: isAuthenticated(u) returns true exactly when u has a session and
\* now - lastActivity <= sessionTimeout; when it returns false the session is
\* gone from the table, when it returns true the table is as before; and no
\* step in which only time passes removes or changes a session.
C7_LazyExpiry ==
  [][/\ \A u \in StoreUsers :
          Calls("isAuthenticated", u)
          => /\ (out'.value <=> ValidSession(u))
             /\ (~out'.value => u \notin DOMAIN sessions')
             /\ (out'.value => sessions' = sessions)
      /\ (Background => sessions' = sessions)]_vars

\* C7 witness: isAuthenticated returned true at exactly sessionTimeout of
\* inactivity.
C7_Witness ==
  /\ out # Idle /\ out.op = "isAuthenticated" /\ out.value
  /\ now - sessions[out.user].lastActivity = sessionTimeoutMs

\* C9 as stated: right after a restart, only identities whose session was in
\* the table of the previous process (so not locked) and had not expired by
\* its lastActivity there are authenticated.
C9_NoResurrection ==
  [][Calls("restart", NoUser)
     => \A u \in StoreUsers :
          (u \in DOMAIN sessions' /\ now - sessions'[u].lastActivity <= sessionTimeoutMs)
          => ValidSession(u)]_vars

\* C10: the table a new SessionManager starts with holds exactly the entries
\* of the snapshot with now - lastActivity <= sessionTimeout, each under its
\* identity and with the authenticatedAt, lastActivity and working directory
\* of the snapshot.
C10_RestoreUnexpired ==
  [][Calls("restart", NoUser)
     => /\ DOMAIN sessions' \subseteq Senders
        /\ \A u \in Senders :
             LET k == JsonKey(u)
                 kept == /\ disk.exists
                         /\ k \in DOMAIN disk.data
                         /\ now - disk.data[k].lastActivity <= sessionTimeoutMs
             IN /\ (u \in DOMAIN sessions' <=> kept)
                /\ (kept => sessions'[u] = disk.data[k])]_vars

\* C10 witness: the snapshot held one entry last active sessionTimeout/2 ago,
\* authenticated earlier and with a working directory of its own, and one
\* last active more than sessionTimeout ago; only the first is in the new table.
C10_Witness ==
  /\ out # Idle /\ out.op = "restart"
  /\ \E a, b \in StoreUsers :
       /\ a # b
       /\ JsonKey(a) \in DOMAIN disk.data /\ JsonKey(b) \in DOMAIN disk.data
       /\ 2 * (now - disk.data[JsonKey(a)].lastActivity) = sessionTimeoutMs
       /\ now - disk.data[JsonKey(b)].lastActivity > sessionTimeoutMs
       /\ DOMAIN sessions = {a}
       /\ sessions[a].workDir = "proj"
       /\ sessions[a].authenticatedAt < sessions[a].lastActivity

Snapshotted(u) ==
  /\ disk.exists
  /\ JsonKey(u) \in DOMAIN disk.data
  /\ disk.data[JsonKey(u)].lastActivity = sessions[u].lastActivity

GrantsIn(u, t) ==
  {i \in 1..Len(granted) :
     granted[i].user = u /\ granted[i].at > t - 60 * 1000 /\ granted[i].at <= t}

\* C12: for every identity and every instant t, at most rateLimitPerMin
\* checks returned allowed with a timestamp in (t - 60 s, t].  (The count over
\* the interval ending at t changes only at the timestamp of an allowed
\* check, so t ranges over those and the current time.)
C12_SlidingWindow ==
  \A u \in StoreUsers :
    \A t \in {now} \cup {granted[i].at : i \in 1..Len(granted)} :
      Cardinality(GrantsIn(u, t)) <= rateLimitPerMin

\* C12 witness: an identity was allowed twice, was refused less than 60 s
\* after the first of them although more than a window boundary lay between,
\* and has been allowed more than rateLimitPerMin times in all.
C12_Witness ==
  /\ out # Idle /\ out.op = "check" /\ ~out.allowed
  /\ Cardinality({i \in 1..Len(granted) : granted[i].user = out.user}) > rateLimitPerMin
  /\ \E i \in GrantsIn(out.user, now) :
       /\ now - granted[i].at > 58 * 1000
       /\ granted[i].at \div (60 * 1000) # now \div (60 * 1000)

\* C13: a check for u is allowed exactly when fewer than rateLimitPerMin
\* checks of u were allowed in the 60 s before it: the first rateLimitPerMin
\* checks of a window are allowed, the next one is refused, and a check is
\* allowed again once the oldest of them is 60 s old.
C13_LimitThenRefuse ==
  [][\A u \in StoreUsers :
       Calls("check", u)
       => (out'.allowed <=> Cardinality(GrantsIn(u, now)) < rateLimitPerMin)]_vars

\* C13 witness: a check allowed exactly 60 s after an allowed check of the
\* same identity, which had been refused in between.
C13_Witness ==
  /\ out # Idle /\ out.op = "check" /\ out.allowed
  /\ \E i \in 1..Len(granted) :
       /\ granted[i].user = out.user
       /\ now - granted[i].at = 60 * 1000
  /\ Len(buckets[out.user]) = rateLimitPerMin

\* C14: a refused check leaves in the bucket exactly the timestamps that were
\* inside the window, in their order, and records nothing; its waitSec is at
\* least 1 and is the time until the oldest of them is 60 s old, rounded up
\* to whole seconds; and a check waitSec seconds later is allowed.
C14_RefusalNotRecorded ==
  [][\A u \in StoreUsers :
       (Calls("check", u) /\ ~out'.allowed)
       => /\ u \in DOMAIN buckets
          /\ buckets'[u] = SelectSeq(buckets[u], LAMBDA x : now - x < 60 * 1000)
          /\ granted' = granted
          /\ Len(buckets'[u]) > 0
          /\ out'.waitSec >= 1
          /\ out'.waitSec * 1000 >= buckets'[u][1] + 60 * 1000 - now
          /\ (out'.waitSec - 1) * 1000 < buckets'[u][1] + 60 * 1000 - now
          /\ checkRateLimit(buckets', u, now + out'.waitSec * 1000).allowed]_vars

\* C14 witness: a refusal whose waitSec was rounded up to the next second,
\* more than 30 s after the oldest timestamp the bucket retains.
C14_Witness ==
  /\ out # Idle /\ out.op = "check" /\ ~out.allowed
  /\ (buckets[out.user][1] + 60 * 1000 - now) % 1000 # 0
  /\ now - buckets[out.user][1] > 30 * 1000

\* C15 as stated: a request whose handling calls an AI provider has had, in
\* that handling, a rate-limit check for the sender that returned allowed.
C15_RateCheckBeforeProvider ==
  [][\A u \in Senders :
       (Handles(u) /\ out'.provider) => out'.rate = "allowed"]_vars

\* the bytes Buffer.from reads from the input of the decrypt just made
InputBytes == fromBase64(out'.input)

\* the keyed hash stored in the input differs from the one of its payload
HashMismatch ==
  /\ Len(InputBytes) >= MacW + SaltW + IvW + TagW
  /\ SubSeq(InputBytes, 1, MacW) #
       createHmac(NewCipher(out'.password).hmacKey,
                  SubSeq(InputBytes, MacW + 1, Len(InputBytes)))

\* C18 as stated: decrypt of a modified token (a bit flipped, or cut short)
\* fails, and no decrypt returns a plaintext other than the encrypted one.
C18_TamperDetected ==
  [][out'.op = "decrypt"
     => /\ (out'.input # out'.token => ~out'.ok)
        /\ (out'.ok => out'.result = out'.plaintext)]_vars

\* C19: when the stored keyed hash does not match, decrypt fails having made
\* neither the key derivation nor a cipher operation; and whenever decrypt
\* derives the key, the check of the keyed hash came before.
C19_HashCheckedFirst ==
  [][out'.op = "decrypt"
     => /\ (HashMismatch
            => /\ ~out'.ok
               /\ \A i \in 1..Len(out'.steps) :
                    out'.steps[i] \notin {"pbkdf2", "decipher"})
        /\ \A i \in 1..Len(out'.steps) :
             out'.steps[i] \in {"pbkdf2", "decipher"}
             => \E j \in 1..(i - 1) : out'.steps[j] = "hmac"]_vars

\* C19 witness: decrypt of a token with one bit of its ciphertext part
\* flipped stopped at the check of the keyed hash.
C19_Witness ==
  /\ out.op = "decrypt"
  /\ Len(out.input) = Len(out.token)
  /\ \E i \in (Len(out.token) - 3)..Len(out.token) : out.input[i] # out.token[i]
  /\ Len(fromBase64(out.input)) > MacW + SaltW + IvW + TagW
  /\ out.error = "hmac"
  /\ out.steps = <<"base64", "length", "hmac">>

\* C20 as stated: decrypt(encrypt(P)) on the same Cipher returns exactly P.
C20_RoundTrip ==
  [][(out'.op = "decrypt" /\ out'.input = out'.token)
     => (out'.ok /\ out'.result = out'.plaintext)]_vars

\* the entry of line i of the file, as the log's owner reads it
EntryAt(file, i) ==
  LET dec == decrypt(AuditCipher, file[i])
      entry == JsonParse(dec.plaintext)
  IN [ok |-> dec.ok /\ entry.ok, a |-> entry.a, d |-> entry.d]

\* the lines of the file that decrypt and parse and were recorded for u
Mine(file, u) ==
  {i \in 1..Len(file) : \E e \in {EntryAt(file, i)} : e.ok /\ e.d[1] = u}

\* C16: queryAudit(u, limit) returns min(limit, number of u's readable
\* entries) entries; the j-th of them is the j-th most recent readable entry
\* recorded for u, so none is of another identity and they come most recent
\* first; lines that do not decrypt or parse are passed over.
C16_QueryLatest ==
  out.op = "queryAudit" =>
    LET mine == Mine(auditLog, out.user)
        r == out.results
    IN /\ Len(r) = Min(out.limit, Cardinality(mine))
       /\ \A j \in 1..Len(r) :
            /\ r[j].data[1] = out.user
            /\ r[j].data[2] \in mine
            /\ Cardinality({m \in mine : m > r[j].data[2]}) = j - 1
            /\ r[j].action = EntryAt(auditLog, r[j].data[2]).a

\* C16 witness: a query with limit 2 by an identity with more than 2 readable
\* entries, in a file that also holds an entry of the other identity and a
\* damaged line, both more recent than the oldest entry returned.
C16_Witness ==
  /\ out.op = "queryAudit"
  /\ out.limit = 2
  /\ Len(out.results) = 2
  /\ Cardinality(Mine(auditLog, out.user)) > 2
  /\ \E i \in Damaged : i > out.results[2].data[2]
  /\ \E v \in StoreUsers \ {out.user} :
       \E i \in Mine(auditLog, v) : i > out.results[2].data[2]

\* C17: a logAudit call adds one line at the end of the file, the entry of
\* the caller, and leaves the lines before it as they were; queryAudit,
\* initAudit and closeAudit leave the file as it was; and the readable lines
\* of one identity are in the file in the order of their calls.
C17_AppendOnly ==
  [][/\ (out = Idle /\ out'.op = "logAudit") =>
          /\ Len(auditLog') = Len(auditLog) + 1
          /\ SubSeq(auditLog', 1, Len(auditLog)) = auditLog
          /\ EntryAt(auditLog', Len(auditLog')) =
               [ok |-> TRUE, a |-> out'.action, d |-> <<out'.user, Len(auditLog) + 1>>]
     /\ (out = Idle /\ out'.op \in {"queryAudit", "initAudit", "closeAudit"}) =>
          auditLog' = auditLog
     /\ LET entries == {[line |-> i, entry |-> EntryAt(auditLog', i)] :
                           i \in 1..Len(auditLog')}
        IN \A e1, e2 \in entries :
             (/\ e1.line < e2.line
              /\ e1.entry.ok /\ e2.entry.ok
              /\ e1.entry.d[1] = e2.entry.d[1])
               => e1.entry.d[2] < e2.entry.d[2]]_vars

\* C17 witness: a logAudit call has just added the third line of its caller
\* to a file that holds lines of the other identity too.
C17_Witness ==
  /\ out.op = "logAudit"
  /\ Cardinality(Mine(auditLog, out.user)) >= 3
  /\ Len(auditLog) \in Mine(auditLog, out.user)
  /\ \E v \in StoreUsers \ {out.user} : Mine(auditLog, v) # {}

\* the outcome of decrypt of the token just handled, untampered, on a Cipher
\* built from passphrase pw
UnderPassphrase(pw) == decrypt(NewCipher(pw), out'.token)

\* C21 as stated: decrypt of a modified token (a bit flipped, or cut short)
\* and decrypt of the unmodified token under another master passphrase both
\* fail, and with the same error.
C21_SameFailure ==
  [][(out'.op = "decrypt" /\ out'.input # out'.token)
     => \A pw \in Passwords :
          (NewCipher(pw).ok /\ pw # out'.password)
          => /\ ~out'.ok
             /\ ~UnderPassphrase(pw).ok
             /\ UnderPassphrase(pw).error = out'.error]_vars

\* C22: authenticate of an identity that is not in the whitelist returns the
\* unauthorized-identity result whatever the PIN, and leaves the session
\* table, the snapshot and the time of the last snapshot write as they were,
\* whatever failure record a whitelisted identity has.
C22_UnauthorizedIdentity ==
  [][\A u \in Senders \ Whitelist :
       Calls("authenticate", u)
       => /\ ~out'.value
          /\ out'.reason = "unauthorized_user"
          /\ sessions' = sessions
          /\ disk' = disk
          /\ lastSave' = lastSave]_vars

\* C22 witness: authenticate with the correct PIN by an identity outside the
\* whitelist was refused, while a whitelisted identity is inside a lockout
\* window and another call had written a snapshot before.
C22_Witness ==
  /\ out.op = "authenticate"
  /\ out.user \notin Whitelist
  /\ out.pin = AUTH_PIN
  /\ out.reason = "unauthorized_user"
  /\ InLockout(1)
  /\ disk.exists /\ lastSave < now

\* the session a successful authenticate at the current time creates
FreshSession == [authenticatedAt |-> now, lastActivity |-> now, workDir |-> defaultWorkDir]

\* the snapshot as it is after this step holds for u the session the table holds
InSnapshot(u) ==
  /\ disk'.exists
  /\ JsonKey(u) \in DOMAIN disk'.data
  /\ disk'.data[JsonKey(u)] = sessions'[u]

\* C23 as stated: after a successful authenticate the session of the identity
\* has authenticatedAt and lastActivity at the current time and the default
\* working directory, and the snapshot holds that session.
C23_AsStated ==
  [][\A u \in StoreUsers :
       (Calls("authenticate", u) /\ out'.value)
       => /\ u \in DOMAIN sessions' /\ sessions'[u] = FreshSession
          /\ InSnapshot(u)]_vars

\* C23: after a successful authenticate the session of the identity, new or
\* replaced, has authenticatedAt and lastActivity at the current time and the
\* default working directory, and the sessions of the other identities are as
\* before; when the snapshot write succeeds the snapshot holds the new
\* session and the whole table, when it fails the snapshot is as it was.
C23_CreateOrReplace ==
  [][\A u \in StoreUsers :
       (Calls("authenticate", u) /\ out'.value)
       => /\ u \in DOMAIN sessions' /\ sessions'[u] = FreshSession
          /\ DOMAIN sessions' = DOMAIN sessions \cup {u}
          /\ \A v \in DOMAIN sessions \ {u} : sessions'[v] = sessions[v]
          /\ (ioFaults' = ioFaults
              => /\ \A v \in DOMAIN sessions' : InSnapshot(v)
                 /\ lastSave' = now)
          /\ (ioFaults' # ioFaults => (disk' = disk /\ lastSave' = lastSave))]_vars

\* C23 witness: a successful authenticate has replaced an older session whose
\* working directory was not the default, and the snapshot holds the new one.
C23_Witness ==
  /\ out.op = "authenticate" /\ out.value
  /\ out.replaced = "proj"
  /\ now > TickMs
  /\ sessions[out.user] = [authenticatedAt |-> now, lastActivity |-> now,
                           workDir |-> defaultWorkDir]
  /\ disk.exists
  /\ disk.data[JsonKey(out.user)] = sessions[out.user]

\* C24 as stated: lock(u) leaves u without a session and every other session
\* as it was, lockAll() leaves no session; and an identity without a session
\* stays without one, isAuthenticated returning false for it, through every
\* step that is not a successful authenticate of that identity.
C24_LockedUntilAuthenticate ==
  [][/\ \A u \in StoreUsers :
          Calls("lock", u)
          => /\ u \notin DOMAIN sessions'
             /\ DOMAIN sessions' = DOMAIN sessions \ {u}
             /\ \A v \in DOMAIN sessions' : sessions'[v] = sessions[v]
     /\ Calls("lockAll", NoUser) => sessions' = EmptyMap
     /\ \A u \in StoreUsers :
          (u \notin DOMAIN sessions /\ ~(Calls("authenticate", u) /\ out'.value))
          => /\ u \notin DOMAIN sessions'
             /\ (Calls("isAuthenticated", u) => ~out'.value)]_vars

\* u has a session whose inactivity exceeds sessionTimeout at the current time
HoldsExpired(u) ==
  u \in DOMAIN sessions /\ now - sessions[u].lastActivity > sessionTimeoutMs

\* C25 as stated: on a session whose inactivity exceeds sessionTimeout, touch
\* does not move lastActivity, so the session is still expired after it;
\* getWorkDir does not return the working directory of the session; and
\* setWorkDir does not change it.
C25_ExpiryOnEveryAccess ==
  [][\A u \in StoreUsers :
       HoldsExpired(u)
       => /\ Calls("touch", u)
             => \/ u \notin DOMAIN sessions'
                \/ sessions'[u].lastActivity = sessions[u].lastActivity
          /\ Calls("getWorkDir", u)
             => (sessions[u].workDir # defaultWorkDir => out'.value # sessions[u].workDir)
          /\ Calls("setWorkDir", u)
             => \/ u \notin DOMAIN sessions'
                \/ sessions'[u].workDir = sessions[u].workDir]_vars

\* the entry of u in the snapshot is a session that has not expired
RestorableEntry(u) ==
  /\ disk.exists
  /\ JsonKey(u) \in DOMAIN disk.data
  /\ hasLastActivity(disk.data[JsonKey(u)])
  /\ now - disk.data[JsonKey(u)].lastActivity <= sessionTimeoutMs

\* the snapshot holds a damaged entry
DamagedEntry(u) ==
  /\ disk.exists
  /\ JsonKey(u) \in DOMAIN disk.data
  /\ ~hasLastActivity(disk.data[JsonKey(u)])

\* C26 as stated: a restart on a snapshot with a damaged entry completes,
\* the damaged entry gives no session, and every entry that is a session and
\* has not expired is restored as it is in the snapshot, wherever the damaged
\* entry stands.
C26_CorruptEntryDropped ==
  [][(Calls("restart", NoUser) /\ \E d \in StoreUsers : DamagedEntry(d))
     => \A u \in StoreUsers :
          /\ DamagedEntry(u) => u \notin DOMAIN sessions'
          /\ RestorableEntry(u)
             => (u \in DOMAIN sessions' /\ sessions'[u] = disk.data[JsonKey(u)])]_vars

\* the methods of the SessionManager and of the audit log that use storage
StorageOps ==
  {"authenticate", "isAuthenticated", "touch", "lock", "lockAll", "setWorkDir", "logAudit"}

\* C30 as stated: no call whose storage operation fails throws, and the
\* effect of the call on the session table is the one of the call without
\* the failure: the session is there after authenticate, refreshed after
\* touch, changed after setWorkDir, gone after lock and lockAll and after
\* isAuthenticated on an expired session.
C30_StorageFailureContained ==
  [][(out = Idle /\ out'.op \in StorageOps /\ out'.io = "fail")
     => /\ ~out'.threw
        /\ \A u \in StoreUsers :
             /\ (Calls("authenticate", u) /\ out'.value)
                => (u \in DOMAIN sessions' /\ sessions'[u] = FreshSession)
             /\ (Calls("touch", u) /\ u \in DOMAIN sessions)
                => sessions'[u].lastActivity = now
             /\ (Calls("setWorkDir", u) /\ u \in DOMAIN sessions)
                => sessions'[u].workDir = out'.value
             /\ Calls("lock", u) => u \notin DOMAIN sessions'
             /\ (Calls("isAuthenticated", u) /\ HoldsExpired(u))
                => (~out'.value /\ u \notin DOMAIN sessions')
        /\ Calls("lockAll", NoUser) => sessions' = EmptyMap]_vars

\* the guard stopped the update of u without a reply and without a change of
\* the session table
StoppedSilently == out'.reply = "none" /\ ~out'.next /\ sessions' = sessions

\* C27 as stated: the guard applies its checks in the order whitelist,
\* lockout, group filter, session, and the first one that fails decides: an
\* identity outside the whitelist is ignored; else an identity inside a
\* lockout window gets the lockout reply; else a group message that is no
\* command, mention, reply or media is ignored; else /start and /auth pass;
\* else the message passes with a valid session and gets the
\* not-authenticated reply without one.  A check that decides leaves the
\* session table as it was.
C27_GuardOrder ==
  [][\A u \in Senders \ {NoUser} :
       Handles(u)
       => IF u \notin Whitelist THEN StoppedSilently
          ELSE IF InLockout(u)
          THEN out'.reply = "locked" /\ ~out'.next /\ sessions' = sessions
          ELSE IF DroppedInGroup(out'.chat, out'.kind) THEN StoppedSilently
          ELSE IF out'.kind \in {"start", "auth"} THEN out'.next
          ELSE IF ValidSession(u) THEN out'.next
          ELSE out'.reply = "noauth" /\ ~out'.next]_vars

\* C27: the guard applies its checks in the order whitelist, group filter,
\* lockout, session, and the first one that fails decides: an identity
\* outside the whitelist is ignored; else a group message that is no command,
\* mention, reply or media is ignored, also inside a lockout window; else an
\* identity inside a lockout window gets the lockout reply; else /start and
\* /auth pass; else the message passes with a valid session and gets the
\* not-authenticated reply without one.  A check that decides before the
\* session check leaves the session table as it was.
C27_GroupFilterBeforeLockout ==
  [][\A u \in Senders \ {NoUser} :
       Handles(u)
       => IF u \notin Whitelist THEN StoppedSilently
          ELSE IF DroppedInGroup(out'.chat, out'.kind) THEN StoppedSilently
          ELSE IF InLockout(u)
          THEN out'.reply = "locked" /\ ~out'.next /\ sessions' = sessions
          ELSE IF out'.kind \in {"start", "auth"} THEN out'.next
          ELSE IF ValidSession(u) THEN out'.next
          ELSE out'.reply = "noauth" /\ ~out'.next]_vars

\* C27 witness: plain text sent to a group by an identity inside a lockout
\* window got no reply.
C27_Witness ==
  /\ out.op = "request"
  /\ out.chat = "group" /\ out.kind = "text"
  /\ InLockout(out.user)
  /\ out.reply = "none" /\ ~out.next

\* position of a call among the calls of the handler (0: not made)
StepOf(steps, name) ==
  IF \E i \in 1..Len(steps) : steps[i] = name
  THEN CHOOSE i \in 1..Len(steps) : steps[i] = name
  ELSE 0

\* number of times the handler made a call
TimesCalled(steps, name) == Cardinality({i \in 1..Len(steps) : steps[i] = name})

Chars == {"@", "b", "/", "x", " "}
botUsername == <<"b">>

\* `@${ctx.me.username}`
Mention == <<"@">> \o botUsername

TextsUpTo(n) == UNION {[1..k -> Chars] : k \in 0..n}

\* String.prototype.startsWith
startsWith(s, p) == Len(p) <= Len(s) /\ SubSeq(s, 1, Len(p)) = p

\* the positions where p occurs in s
Occurrences(s, p) ==
  {i \in 1..(Len(s) - Len(p) + 1) : SubSeq(s, i, i + Len(p) - 1) = p}

\* String.prototype.includes
includes(s, p) == Occurrences(s, p) # {}

\* String.prototype.indexOf for a pattern that occurs
indexOf(s, p) == CHOOSE i \in Occurrences(s, p) : \A j \in Occurrences(s, p) : i <= j

\* String.prototype.replace with a string pattern: the first occurrence only
replace(s, p, r) ==
  IF ~includes(s, p) THEN s
  ELSE LET i == indexOf(s, p)
       IN SubSeq(s, 1, i - 1) \o r \o SubSeq(s, i + Len(p), Len(s))

\* String.prototype.trim
RECURSIVE trim(_)
trim(s) ==
  IF s = <<>> THEN s
  ELSE IF Head(s) = " " THEN trim(Tail(s))
  ELSE IF s[Len(s)] = " " THEN trim(SubSeq(s, 1, Len(s) - 1))
  ELSE s

\* ctx.message: text and caption (<<>>: absent), the kind of media it carries
\* and whether it replies to a message of the bot
MediaKinds == {"voice", "audio", "photo", "document", "sticker"}
TextMessages ==
  {[text |-> t, caption |-> <<>>, media |-> "none", replyToBot |-> r] :
     t \in TextsUpTo(MaxText) \ {<<>>}, r \in BOOLEAN}
MediaMessages ==
  {[text |-> <<>>, caption |-> c, media |-> m, replyToBot |-> r] :
     c \in TextsUpTo(MaxCaption), m \in MediaKinds, r \in BOOLEAN}

\* const text = ctx.message?.text || ctx.message?.caption || ''
textOrCaption(m) == IF m.text # <<>> THEN m.text ELSE m.caption

\* the group branch: whether the guard goes on, and the message it goes on with
groupBranch(chat, m) ==
  IF chat \notin {"group", "supergroup"} THEN [passes |-> TRUE, message |-> m]
  ELSE LET text == textOrCaption(m)
           mentioned == includes(text, Mention) \/ m.replyToBot
           command == startsWith(text, <<"/">>)
           isVoice == m.media \in {"voice", "audio"}
           isPhoto == m.media = "photo"
           isDocument == m.media = "document"
       IN IF ~command /\ ~mentioned /\ ~isVoice /\ ~isPhoto /\ ~isDocument
          THEN [passes |-> FALSE, message |-> m]
          ELSE [passes |-> TRUE,
                message |-> IF m.text # <<>>
                            THEN [m EXCEPT !.text = trim(replace(m.text, Mention, <<>>))]
                            ELSE m]

\* a whitelisted sender's message goes through the group branch
GroupMessage(chat, m) ==
  /\ out = Idle
  /\ \E g \in {groupBranch(chat, m)} :
       out' = [op |-> "group", user |-> 1, chat |-> chat, message |-> m,
               passes |-> g.passes, seen |-> g.message]
  /\ UNCHANGED <<now, sessions, disk, lastSave, ioFaults, failedAttempts, buckets, auditLog, granted, sharedVars>>

GroupMessages ==
  \E chat \in ChatTypes, m \in TextMessages \cup MediaMessages : GroupMessage(chat, m)

NextGroup == GroupMessages \/ Deliver

SpecGroup == Init /\ [][NextGroup]_vars

\* C29: in a group or supergroup a whitelisted sender's message goes on
\* exactly when it is a command, mentions the bot, replies to the bot or
\* carries voice, audio, photo or document; a message that does not go on is
\* left as it was; the text of a message that goes on holds no bot mention.
C29_GroupFilter ==
  (out.op = "group" /\ out.chat \in {"group", "supergroup"})
  => /\ out.passes
          <=> \/ startsWith(textOrCaption(out.message), <<"/">>)
              \/ includes(textOrCaption(out.message), Mention)
              \/ out.message.replyToBot
              \/ out.message.media \in {"voice", "audio", "photo", "document"}
     /\ (~out.passes => out.seen = out.message)
     /\ (out.passes => ~includes(out.seen.text, Mention))

\* C31: new Cipher succeeds exactly for a passphrase of at least 16
\* characters (UTF-16 code units, as String.length counts them): a missing
\* or shorter one makes the constructor throw, and no encrypt or decrypt is
\* ever made on a Cipher built from one.
C31_MinimumPassphrase ==
  /\ (out.op = "construct"
      => (out.ok <=> Len(out.password) >= 16))
  /\ (out.op \in {"encrypt", "decrypt"} => Len(out.password) >= 16)

\* C31 witness: a passphrase of exactly 16 characters was accepted.
C31_Witness ==
  /\ out.op = "construct"
  /\ Len(out.password) = 16
  /\ out.ok

\* C32: two encrypt calls on one Cipher, the second with a salt and IV that
\* are not both those of the first, return different tokens, whether or not
\* the plaintexts are the same; both tokens decrypt, and for the same
\* plaintext they decrypt to the same string.
C32_FreshTokens ==
  out.op = "encryptAgain"
  => /\ out.token2 # out.token
     /\ out.first.ok /\ out.again.ok
     /\ (out.plaintext2 = out.plaintext => out.again.plaintext = out.first.plaintext)

\* C32 witness: the same non-empty plaintext was encrypted twice with the
\* same salt and another IV.
C32_Witness ==
  /\ out.op = "encryptAgain"
  /\ out.plaintext2 = out.plaintext /\ out.plaintext = <<72, 105>>
  /\ out.salt2 = out.salt /\ out.iv2 # out.iv
  /\ out.again.plaintext = <<72, 105>>

\* the bytes Buffer.prototype.equals (memcmp) reads of each operand: up to and
\* including the first pair that differs
equalsCompared(a, b) ==
  IF \E i \in 1..Len(a) : a[i] # b[i]
  THEN CHOOSE i \in 1..Len(a) : a[i] # b[i] /\ \A j \in 1..(i - 1) : a[j] = b[j]
  ELSE Len(a)

\* the bytes crypto.timingSafeEqual reads of each operand: all of them
timingSafeEqualCompared(a, b) == Len(a)

\* the bytes of the stored keyed hash that decrypt(encoded) compares
HmacCompared(password, encoded) ==
  LET data == fromBase64(encoded)
      payload == SubSeq(data, MacW + 1, Len(data))
  IN equalsCompared(SubSeq(data, 1, MacW),
                    createHmac(NewCipher(password).hmacKey, payload))

\* the bytes of the PIN that authenticate compares: none when the lengths differ
PinCompared(pin, expected) ==
  IF Len(pin) # Len(expected) THEN 0 ELSE timingSafeEqualCompared(pin, expected)

\* C33: a decrypt that rejects a token for its keyed hash has compared every
\* byte of the hash, wherever the first difference is, and an authenticate
\* that rejects a PIN has compared as many bytes as the configured PIN has,
\* whatever the supplied PIN's length and correct prefix.
C33_ConstantTime ==
  /\ (out.op = "decrypt" /\ out.error = "hmac")
     => HmacCompared(out.password, out.input) = MacW
  /\ (out.op = "authenticate" /\ ~out.value /\ out.reason = "invalid_pin")
     => PinCompared(out.pin, AUTH_PIN) = Len(AUTH_PIN)

\* u holds a session whose inactivity exceeds sessionTimeout
ExpiredSession(u) ==
  u \in DOMAIN sessions /\ now - sessions[u].lastActivity > sessionTimeoutMs

\* C34 as stated: every update of an identity with an expired session that is
\* not /start or /auth gets the not-authenticated reply, reaches no handler
\* and deletes the session.
C34_AsStated ==
  [][\A u \in Whitelist :
       (Handles(u) /\ ExpiredSession(u)
          /\ out'.kind \notin {"start", "auth", "authbare"})
       => /\ out'.reply = "noauth" /\ ~out'.next
          /\ u \notin DOMAIN sessions']_vars

\* C34: an update of an identity with an expired session that is not /start
\* or /auth <pin> and that the group filter and the lockout check let through
\* gets the not-authenticated reply, reaches no handler and deletes the
\* session; an update that those checks stop, or /start, or /auth with a
\* wrong PIN, leaves the expired session as it is; and in every step after
\* which an identity has a valid session that it did not have before, that
\* identity has authenticated with the right PIN.
C34_NoRevival ==
  [][\A u \in Whitelist :
       /\ (Handles(u) /\ ExpiredSession(u))
          => IF out'.kind \in {"start", "auth"}
             THEN out'.result = "auth_ok" \/ sessions'[u] = sessions[u]
             ELSE IF DroppedInGroup(out'.chat, out'.kind) \/ InLockout(u)
             THEN ~out'.next /\ out'.reply # "noauth" /\ sessions'[u] = sessions[u]
             ELSE /\ out'.reply = "noauth" /\ ~out'.next
                  /\ out'.result = "none"
                  /\ u \notin DOMAIN sessions'
       /\ (~ValidSession(u) /\ ValidSession(u)')
          => (Handles(u) /\ out'.kind = "auth" /\ out'.pin = AUTH_PIN
                /\ out'.result = "auth_ok")]_vars

\* C34 witness: plain text of an identity whose session had expired got the
\* not-authenticated reply, and the session is gone from the table and from
\* the snapshot.
C34_Witness ==
  /\ out.op = "request" /\ out.user = 1 /\ out.kind = "text"
  /\ out.reply = "noauth" /\ ~out.next
  /\ now > TickMs + sessionTimeoutMs
  /\ 1 \notin DOMAIN sessions
  /\ disk.exists /\ JsonKey(1) \notin DOMAIN disk.data

\* C35: a wrong PIN sent by an identity with 5 or more failures whose lockout
\* window has elapsed is handled, counts as one more failure at the current
\* time and leaves the identity inside the window of the new count; every
\* message of an identity inside a window gets the lockout reply with the
\* minutes left of the window of its count, measured from its last failure;
\* and a count of 5 or more only ever disappears by a correct PIN.
C35_RelockAfterOneFailure ==
  [][\A u \in Whitelist :
       /\ (/\ Handles(u)
           /\ out'.kind = "auth" /\ out'.pin # AUTH_PIN
           /\ u \in DOMAIN failedAttempts
           /\ failedAttempts[u].count >= 5
           /\ ~InLockout(u))
          => /\ out'.next /\ out'.result = "auth_failed"
             /\ failedAttempts'[u] = [count |-> failedAttempts[u].count + 1,
                                      lastAttempt |-> now]
             /\ InLockout(u)'
       /\ (Handles(u) /\ InLockout(u) /\ ~DroppedInGroup(out'.chat, out'.kind))
          => /\ out'.reply = "locked" /\ ~out'.next
             /\ out'.remaining
                  = CeilDiv(ClaimWindow(failedAttempts[u].count)
                              - (now - failedAttempts[u].lastAttempt), Minute)
             /\ failedAttempts' = failedAttempts
       /\ (/\ u \in DOMAIN failedAttempts
           /\ failedAttempts[u].count >= 5
           /\ (u \notin DOMAIN failedAttempts' \/ failedAttempts'[u].count < 5))
          => (Handles(u) /\ out'.pin = AUTH_PIN /\ out'.result = "auth_ok")]_vars

\* C35 witness: the tenth wrong PIN, sent after the 15-minute window of nine
\* failures had elapsed, was handled, and the identity is now at the start of
\* a 30-minute window.
C35_Witness ==
  /\ out.op = "request" /\ out.kind = "auth" /\ out.result = "auth_failed"
  /\ out.attempts = 9
  /\ failedAttempts[1] = [count |-> 10, lastAttempt |-> now]
  /\ InLockout(1)
  /\ ClaimWindow(10) = 30 * Minute

(***************************************************************************)
(* SpecFailedAuth: authenticate called for whitelisted identities and one  *)
(* that is not, with the right PIN, a wrong one and one of another length, *)
(* between refreshes and changes of the working directory.                 *)
(***************************************************************************)
FailedAuthCalls ==
  \/ \E u \in Senders \ {NoUser}, pin \in Pins, io \in IoResults : Authenticate(u, pin, io)
  \/ \E u \in StoreUsers : Touch(u, "ok")
  \/ \E u \in StoreUsers, dir \in WorkDirs : SetWorkDir(u, dir, "ok")

NextFailedAuth == StoreTick \/ Deliver \/ FailedAuthCalls

SpecFailedAuth == Init /\ [][NextFailedAuth]_vars

\* C36: authenticate fails exactly for an identity outside the whitelist or a
\* PIN that is not the configured one, and a failed authenticate leaves the
\* session table, the snapshot and the time of the last write as they were.
C36_FailedAuthFrame ==
  [][\A u \in Senders \ {NoUser} :
       Calls("authenticate", u)
       => /\ (out'.value <=> (u \in Whitelist /\ out'.pin = AUTH_PIN))
          /\ (~out'.value
              => /\ sessions' = sessions
                 /\ disk' = disk
                 /\ lastSave' = lastSave
                 /\ out'.reason = IF u \in Whitelist THEN "invalid_pin"
                                  ELSE "unauthorized_user")]_vars

\* C36 witness: a PIN of another length was refused for an identity that holds
\* a valid session, refreshed after its creation and with a working directory
\* of its own.
C36_Witness ==
  /\ out.op = "authenticate" /\ ~out.value
  /\ Len(out.pin) # Len(AUTH_PIN)
  /\ ValidSession(out.user)
  /\ sessions[out.user].workDir = "proj"
  /\ sessions[out.user].authenticatedAt < sessions[out.user].lastActivity
  /\ sessions[out.user].lastActivity < now

(***************************************************************************)
(* SpecPerIdentity: two whitelisted identities send /auth with the right   *)
(* and a wrong PIN, /lock, /project and plain text in a private chat.      *)
(***************************************************************************)
PairRequests ==
  \E u \in StoreUsers, kind \in {"auth", "lock", "project", "text"} :
    \E pin \in (IF kind = "auth" THEN StorePins ELSE {<<>>}),
       dir \in (IF kind = "project" THEN WorkDirs ELSE {defaultWorkDir}) :
      /\ Request(u, "private", kind, pin, dir, "ok", "ok")
      /\ Len(auditLog') <= MaxPairAudit
      /\ \A x \in DOMAIN failedAttempts' : failedAttempts'[x].count <= MaxPairFail

NextPerIdentity == Tick \/ Deliver \/ PairRequests

SpecPerIdentity == Init /\ [][NextPerIdentity]_vars

\* the part of a Map that belongs to u
Own(m, u) == [x \in DOMAIN m \cap {u} |-> m[x]]

\* C37: an update of identity a leaves the session, the failure record and
\* the rate bucket of every other identity as they were, and what the guard,
\* the handler and the rate limiter decide for a is what they decide on a's
\* own entries alone.
C37_PerIdentity ==
  [][\A a \in StoreUsers :
       Handles(a)
       => /\ \A b \in StoreUsers \ {a} :
               /\ Own(sessions', b) = Own(sessions, b)
               /\ Own(failedAttempts', b) = Own(failedAttempts, b)
               /\ Own(buckets', b) = Own(buckets, b)
          /\ \E g \in {guardMiddleware([Store EXCEPT !.sessions = Own(sessions, a)],
                                      Own(failedAttempts, a), a, out'.chat,
                                      out'.kind, now, "ok")} :
               /\ out'.reply = g.reply /\ out'.next = g.next
               /\ out'.remaining = g.remaining
               /\ g.next
                  => \E h \in {Handler(out'.kind, out'.pin, defaultWorkDir, a, g.st,
                                       Own(failedAttempts, a), Own(buckets, a),
                                       auditLog, now, "ok")} :
                       /\ out'.result = h.result /\ out'.rate = h.rate
                       /\ Own(failedAttempts', a) = h.fa
                       /\ Own(buckets', a) = h.bk]_vars

\* C37 witness: identity 1 authenticated, which clears its failure record,
\* while identity 2 holds a session and a rate bucket.
C37_Witness ==
  /\ out.op = "request" /\ out.user = 1 /\ out.result = "auth_ok"
  /\ 2 \in DOMAIN sessions
  /\ 2 \in DOMAIN buckets /\ Len(buckets[2]) > 0

(***************************************************************************)
(* The shared memory of the bot instances (src/src/shared/memory.js) and   *)
(* the auto-chat timer of the bot.  Every instance is a process of its     *)
(* own: a call of SharedMemory runs to its end inside its process, but     *)
(* between its readFileSync and its renameSync the other process may read  *)
(* and rename as well.  The temporary file has a random name of its own,   *)
(* so writing it and renaming it is one step, and memory.json always holds *)
(* a document some call wrote in full.  An id is the number genId handed   *)
(* out (name, time and random bytes never repeat); the text of a message   *)
(* is the id of the message it answers (0: it answers none).               *)
(***************************************************************************)
MAX_INSIGHTS == 200
MAX_MESSAGES == 500

PEERS(b) == Bots \ {b}
autoChat(b) == b = "jorge"

readMemory(file) ==
  IF file.exists THEN file.data
  ELSE [insights |-> <<>>, messages |-> <<>>, meta |-> EmptyMap]

writeMemory(data) == [exists |-> TRUE, data |-> data]

\* while (list.length > max) list.shift()
shiftTo(list, max) ==
  IF Len(list) > max THEN SubSeq(list, Len(list) - max + 1, Len(list)) ELSE list

addInsight(data, id, from) ==
  [data EXCEPT !.insights = shiftTo(Append(@, [id |-> id, from |-> from]), MAX_INSIGHTS)]

sendMessage(data, id, from, to, re) ==
  [data EXCEPT !.messages =
     shiftTo(Append(@, [id |-> id, from |-> from, to |-> to, re |-> re, read |-> FALSE]),
             MAX_MESSAGES)]

getUnreadMessages(data, b) ==
  SelectSeq(data.messages, LAMBDA m : m.to = b /\ ~m.read)

\* Array.find / findIndex by id: the first position, 0 when there is none
findIndex(list, id) ==
  IF \E i \in 1..Len(list) : list[i].id = id
  THEN CHOOSE i \in 1..Len(list) :
         list[i].id = id /\ \A j \in 1..(i - 1) : list[j].id # id
  ELSE 0

\* markRead: written is whether it calls writeMemory
markRead(data, id) ==
  LET i == findIndex(data.messages, id) IN
    IF i = 0 THEN [written |-> FALSE, data |-> data]
    ELSE [written |-> TRUE, data |-> [data EXCEPT !.messages[i].read = TRUE]]

\* getNewPeerInsights of instance b; lastSeen 0 is the empty string
getNewPeerInsights(data, b) ==
  LET lastSeen == IF b \in DOMAIN data.meta THEN data.meta[b] ELSE 0
      peerInsights == SelectSeq(data.insights, LAMBDA i : i.from \in PEERS(b))
      lastIdx == IF lastSeen # 0 THEN findIndex(peerInsights, lastSeen) ELSE 0
      newInsights == SubSeq(peerInsights, lastIdx + 1, Len(peerInsights))
  IN  IF Len(peerInsights) = 0 THEN [new |-> <<>>, written |-> FALSE, data |-> data]
      ELSE IF Len(newInsights) > 0
      THEN [new |-> newInsights, written |-> TRUE,
            data |-> [data EXCEPT !.meta = MapSet(@, b, newInsights[Len(newInsights)].id)]]
      ELSE [new |-> <<>>, written |-> FALSE, data |-> data]

coreVars == <<now, sessions, disk, lastSave, ioFaults, failedAttempts, buckets, auditLog, out,
              granted>>

Ids(list) == {list[i].id : i \in 1..Len(list)}
Count(m, id) == IF id \in DOMAIN m THEN m[id] ELSE 0

\* the instance enters a call: it has read the file and is about to write data
Writing(b, call, id, cb, data) ==
  [pc |-> "write", call |-> call, id |-> id, cb |-> cb, data |-> data]

\* /share and /msg of an instance: addInsight and sendMessage up to their
\* readMemory
AddInsight(b) ==
  /\ pending[b] = NoPending
  /\ history.nextId <= MaxIds
  /\ pending' = [pending EXCEPT ![b] =
       Writing(b, "addInsight", history.nextId, 0,
               addInsight(readMemory(memory), history.nextId, b))]
  /\ history' = [history EXCEPT !.nextId = @ + 1]
  /\ UNCHANGED <<memory, callbacks, coreVars>>

SendMessage(b, to) ==
  /\ pending[b] = NoPending
  /\ history.nextId <= MaxIds
  /\ pending' = [pending EXCEPT ![b] =
       Writing(b, "sendMessage", history.nextId, 0,
               sendMessage(readMemory(memory), history.nextId, b, to, 0))]
  /\ history' = [history EXCEPT !.nextId = @ + 1]
  /\ UNCHANGED <<memory, callbacks, coreVars>>

\* the callback is done with message unread[i]: the next one, or the end
Advance(cb) ==
  IF cb.i < Len(cb.unread) THEN [cb EXCEPT !.pc = "execute", !.i = @ + 1] ELSE NoCallback

\* the callback after the writeMemory it was waiting for
AfterWrite(cb) ==
  CASE cb.pc = "meta" -> [cb EXCEPT !.pc = "notifyInsights"]
    [] cb.pc = "reply" -> [cb EXCEPT !.pc = "notifyReply"]
    [] cb.pc = "mark" -> Advance(cb)
    [] OTHER -> cb

\* writeMemory of the call the instance is in, and the return of the call
WriteMemory(b) ==
  /\ pending[b].pc = "write"
  /\ memory' = writeMemory(pending[b].data)
  /\ pending' = [pending EXCEPT ![b] = NoPending]
  /\ callbacks' = [k \in DOMAIN callbacks |->
                     IF k = pending[b].cb THEN AfterWrite(callbacks[k]) ELSE callbacks[k]]
  /\ history' =
       CASE pending[b].call = "addInsight" ->
              [history EXCEPT !.written = @ \cup {[id |-> pending[b].id, from |-> b]}]
         [] pending[b].call = "sendMessage" ->
              [history EXCEPT !.sent = @ \cup {pending[b].id}]
         [] pending[b].call = "markRead" ->
              [history EXCEPT !.marked = @ \cup {pending[b].id},
                              !.processed = @ \cup {pending[b].id}]
         [] OTHER -> history
  /\ UNCHANGED coreVars

FreeSlots == {k \in DOMAIN callbacks : callbacks[k] = NoCallback}

\* The callback from getUnreadMessages on: it ends when there is nothing
\* unread, and awaits provider.execute for the first message otherwise.
FromUnread(data, b) ==
  LET unread == getUnreadMessages(data, b) IN
    IF Len(unread) = 0 THEN NoCallback
    ELSE [pc |-> "execute", unread |-> unread, i |-> 1]

\* The timer fires: setInterval does not wait for the callbacks that are
\* still running.  The callback runs getNewPeerInsights and, with nothing
\* to notify, getUnreadMessages.
TimerFires(b) ==
  /\ autoChat(b)
  /\ pending[b] = NoPending
  /\ FreeSlots # {}
  /\ LET k == CHOOSE x \in FreeSlots : \A y \in FreeSlots : x <= y
         data == readMemory(memory)
         g == getNewPeerInsights(data, b)
     IN  /\ history' =
               [history EXCEPT
                  !.due = @ \cup {w.id : w \in {x \in history.written : x.from \in PEERS(b)}},
                  !.returned = [id \in DOMAIN @ \cup Ids(g.new) |->
                                  Count(@, id) + (IF id \in Ids(g.new) THEN 1 ELSE 0)]]
         /\ IF g.written
            THEN /\ pending' = [pending EXCEPT ![b] =
                                  Writing(b, "getNewPeerInsights", 0, k, g.data)]
                 /\ callbacks' = [callbacks EXCEPT ![k] =
                                    [pc |-> "meta", unread |-> <<>>, i |-> 0]]
            ELSE /\ pending' = pending
                 /\ callbacks' = [callbacks EXCEPT ![k] = FromUnread(data, b)]
  /\ UNCHANGED <<memory, coreVars>>

\* notifyUsers has shown the new insights: getUnreadMessages
InsightsNotified(b, k) ==
  /\ pending[b] = NoPending
  /\ callbacks[k].pc = "notifyInsights"
  /\ callbacks' = [callbacks EXCEPT ![k] = FromUnread(readMemory(memory), b)]
  /\ UNCHANGED <<memory, pending, history, coreVars>>

\* SharedMemory.markRead(msg.id) of callback k, up to its readMemory
MarkRead(b, k) ==
  LET msg == callbacks[k].unread[callbacks[k].i]
      r == markRead(readMemory(memory), msg.id)
  IN  IF r.written
      THEN /\ pending' = [pending EXCEPT ![b] = Writing(b, "markRead", msg.id, k, r.data)]
           /\ callbacks' = [callbacks EXCEPT ![k].pc = "mark"]
           /\ history' = history
      ELSE /\ pending' = pending
           /\ callbacks' = [callbacks EXCEPT ![k] = Advance(@)]
           /\ history' = [history EXCEPT !.processed = @ \cup {msg.id}]

\* provider.execute returns for the message callback k waits on: with an
\* output the callback sends the reply, without one it goes on to markRead
ProviderReturns(b, k, ok) ==
  /\ pending[b] = NoPending
  /\ callbacks[k].pc = "execute"
  /\ LET msg == callbacks[k].unread[callbacks[k].i] IN
       IF ok
       THEN /\ history.nextId <= MaxIds
            /\ pending' = [pending EXCEPT ![b] =
                 Writing(b, "sendMessage", history.nextId, k,
                         sendMessage(readMemory(memory), history.nextId, b, msg.from, msg.id))]
            /\ callbacks' = [callbacks EXCEPT ![k].pc = "reply"]
            /\ history' = [history EXCEPT !.nextId = @ + 1,
                                          !.answered = MapSet(@, msg.id, Count(@, msg.id) + 1)]
       ELSE MarkRead(b, k)
  /\ UNCHANGED <<memory, coreVars>>

\* notifyUsers has shown the exchange: markRead
ReplyNotified(b, k) ==
  /\ pending[b] = NoPending
  /\ callbacks[k].pc = "notifyReply"
  /\ MarkRead(b, k)
  /\ UNCHANGED <<memory, coreVars>>

\* an instance that has written MAX_INSIGHTS - 1 insights in earlier runs
Filled ==
  [insights |-> [i \in 1..(MAX_INSIGHTS - 1) |-> [id |-> i - MAX_INSIGHTS, from |-> "jorge"]],
   messages |-> <<>>, meta |-> EmptyMap]

InitShared ==
  /\ now = TickMs
  /\ sessions = EmptyMap
  /\ disk = NoFile
  /\ lastSave = 0
  /\ ioFaults = 0
  /\ failedAttempts = EmptyMap
  /\ buckets = EmptyMap
  /\ auditLog = <<>>
  /\ granted = <<>>
  /\ out = Idle
  /\ memory \in {NoMemory, writeMemory(Filled)}
  /\ pending = [b \in Bots |-> NoPending]
  /\ callbacks = [k \in 1..MaxCallbacks |-> NoCallback]
  /\ history = NoHistory

\* the users of the instance without the timer share insights and write to
\* its peer; the other instance writes through its timer
Users == {b \in Bots : ~autoChat(b)}
AddInsights == \E b \in Users : AddInsight(b)
SendMessages == \E b \in Users : \E to \in PEERS(b) : SendMessage(b, to)
WriteMemorys == \E b \in Bots : WriteMemory(b)
TimersFire == \E b \in Bots : TimerFires(b)
InsightsNotifieds == \E b \in Bots, k \in 1..MaxCallbacks : InsightsNotified(b, k)
ProvidersReturn == \E b \in Bots, k \in 1..MaxCallbacks, ok \in BOOLEAN : ProviderReturns(b, k, ok)
ReplyNotifieds == \E b \in Bots, k \in 1..MaxCallbacks : ReplyNotified(b, k)

NextShared ==
  \/ AddInsights \/ SendMessages \/ WriteMemorys \/ TimersFire
  \/ InsightsNotifieds \/ ProvidersReturn \/ ReplyNotifieds

SpecShared == InitShared /\ [][NextShared]_vars

\* no instance is inside a call of SharedMemory
Quiet == \A b \in Bots : pending[b] = NoPending
\* no callback of the timer is running
LoopIdle == \A k \in DOMAIN callbacks : callbacks[k] = NoCallback
Stored == readMemory(memory)
\* the entry was shifted out by the cap: the list is full of newer entries
Trimmed(list, id, max) == Len(list) = max /\ \A i \in 1..Len(list) : list[i].id > id

\* C38: when two instances share memory.json, nothing one of them wrote is
\* lost to a concurrent write of the other: once both have returned from
\* their addInsight, sendMessage and markRead calls, the file holds every
\* insight and every message written, unless the cap of 200 insights or 500
\* messages has shifted it out, and every message marked read is read there.
\* (A reader sees whole documents only: renameSync replaces the file at once.)
C38_NoLostWrite ==
  Quiet =>
    /\ \A w \in history.written :
         \/ w.id \in Ids(Stored.insights)
         \/ Trimmed(Stored.insights, w.id, MAX_INSIGHTS)
    /\ \A id \in history.sent :
         \/ id \in Ids(Stored.messages)
         \/ Trimmed(Stored.messages, id, MAX_MESSAGES)
    /\ \A id \in history.marked :
         \A i \in 1..Len(Stored.messages) :
           Stored.messages[i].id = id => Stored.messages[i].read

\* C39: the auto-chat loop answers each unread message at most once, however
\* long provider.execute takes compared with the 30 s of the timer, and once
\* the loop has come to rest every message it processed is marked read.
C39_AnsweredOnce ==
  /\ \A id \in DOMAIN history.answered : history.answered[id] <= 1
  /\ (Quiet /\ LoopIdle) =>
       \A id \in history.processed :
         \A i \in 1..Len(Stored.messages) :
           Stored.messages[i].id = id => Stored.messages[i].read

\* C40: over the successive calls of getNewPeerInsights each insight of a
\* configured peer is returned by exactly one call: none is returned twice,
\* also after the cap has shifted older insights out, and an insight that was
\* stored when a call read the file has been returned once.
C40_ReturnedOnce ==
  /\ \A id \in DOMAIN history.returned : history.returned[id] <= 1
  /\ \A id \in history.due : Count(history.returned, id) = 1

====
